---- MODULE Spec2Model ----
(***************************************************************************)
(* Cycle-level model of the CMSIS-DAP handler of orbtrace                  *)
(* (src/orbtrace/nmigen/cmsis_dap.py).  One step of the model is one clock *)
(* edge of the "sync" domain: every register takes the value the last      *)
(* active m.d.sync assignment of the cycle gives it, computed from the     *)
(* values the registers held during the cycle.                             *)
(*                                                                         *)
(* 32-bit quantities (tfrData, mask, dwrite, dread, memory words) are kept *)
(* as tuples of four bytes, least-significant byte first.                  *)
(***************************************************************************)
EXTENDS Integers, Sequences, FiniteSets, TLC

VARIABLES r, t, host, cfg, obs

vars == <<r, t, host, cfg, obs>>

-----------------------------------------------------------------------------
(* Program constants                                                       *)

DAP_CONNECT_DEFAULT == 1
DAP_PROTOCOL_STRING_LEN == 5
DAP_VERSION_STRING_LEN == 4
DAP_CAPABILITIES == 3
DAP_MAX_PACKET_COUNT == 1
DAP_V1_MAX_PACKET_SIZE == 64
DAP_V2_MAX_PACKET_SIZE == 511

DAP_PROTOCOL_STRING == <<DAP_PROTOCOL_STRING_LEN + 1, 50, 46, 49, 46, 48, 0>>
DAP_VERSION_STRING == <<DAP_VERSION_STRING_LEN + 1, 49, 46, 48, 48, 0>>
DAP_TD_TIMER_FREQ == <<0, 202, 154, 59>>

DAP_Info == 0
DAP_HostStatus == 1
DAP_Connect == 2
DAP_Disconnect == 3
DAP_TransferConfigure == 4
DAP_Transfer == 5
DAP_TransferBlock == 6
DAP_TransferAbort == 7
DAP_WriteABORT == 8
DAP_Delay == 9
DAP_ResetTarget == 10
DAP_SWJ_Pins == 16
DAP_SWJ_Clock == 17
DAP_SWJ_Sequence == 18
DAP_SWD_Configure == 19
DAP_JTAG_Sequence == 20
DAP_JTAG_Configure == 21
DAP_JTAG_IDCODE == 22
DAP_SWO_Transport == 23
DAP_SWO_Mode == 24
DAP_SWO_Baudrate == 25
DAP_SWO_Control == 26
DAP_SWO_Status == 27
DAP_SWO_Data == 28
DAP_SWD_Sequence == 29
DAP_SWO_ExtendedStatus == 30
DAP_ExecuteCommands == 127
DAP_QueueCommands == 126
DAP_Invalid == 255

CMD_RESET == 0
CMD_PINS_WRITE == 1
CMD_TRANSACT == 2
CMD_SET_SWD == 3
CMD_SET_JTAG == 4
CMD_SET_SWJ == 5
CMD_SET_JTAG_CFG == 6
CMD_SET_CLK == 7
CMD_SET_SWD_CFG == 8
CMD_WAIT == 9
CMD_CLR_ERR == 10
CMD_SET_RST_TMR == 11
CMD_SET_TFR_CFG == 12
CMD_JTAG_GET_ID == 13
CMD_JTAG_RESET == 14

(* Widths of the registers that wrap.                                      *)
RamAdrSize == 128
LenRegSize == 512
Word16Size == 65536

(* Ack codes of the transactor.                                            *)
ACK_OK == 1
ACK_WAIT == 2

-----------------------------------------------------------------------------
(* Bit and byte helpers                                                    *)

Bit(n, i) == (n \div (2 ^ i)) % 2

B2N(b) == IF b THEN 1 ELSE 0

Zero32 == <<0, 0, 0, 0>>

(* blk.word_select(i,8) read: bytes past the end of the value read as 0.   *)
GetB(blk, i) == IF i >= 0 /\ i < Len(blk) THEN blk[i + 1] ELSE 0

(* blk.word_select(i,8).eq(v): a write past the end changes nothing.       *)
SetB(blk, i, v) == IF i >= 0 /\ i < Len(blk) THEN [blk EXCEPT ![i + 1] = v % 256] ELSE blk

(* blk.bit_select(8*i, 8*Len(bs)).eq(bs): consecutive bytes from byte i.   *)
SetBytes(blk, i, bs) ==
    [k \in 1..Len(blk) |-> IF k - 1 >= i /\ k - 1 < i + Len(bs) THEN bs[k - i] ELSE blk[k]]

(* blk.bit_select(8*i, 32) read.                                           *)
Get32(blk, i) == <<GetB(blk, i), GetB(blk, i + 1), GetB(blk, i + 2), GetB(blk, i + 3)>>

Get16(blk, i) == GetB(blk, i) + 256 * GetB(blk, i + 1)

AndByte(a, b) ==
    LET RECURSIVE f(_, _, _)
        f(x, y, k) == IF k = 0 \/ x = 0 \/ y = 0 THEN 0
                      ELSE (x % 2) * (y % 2) + 2 * f(x \div 2, y \div 2, k - 1)
    IN f(a, b, 8)

(* a & b on 32-bit words.                                                  *)
And32(a, b) == [k \in 1..4 |-> AndByte(a[k], b[k])]

(* Bits i, i+1, ... of a little-endian list of bits packed into a byte.    *)
PackByte(bits, i) ==
    LET RECURSIVE f(_)
        f(k) == IF k = 8 THEN 0
                ELSE (IF i + k <= Len(bits) THEN bits[i + k] ELSE 0) * (2 ^ k) + f(k + 1)
    IN f(0)

(* The w low bits of n, least-significant first.                           *)
BitsOf(n, w) == [k \in 1..w |-> Bit(n, k - 1)]

(* A 32-bit register loaded from a list of bits (truncated or zero-filled). *)
Pack32(bits) == <<PackByte(bits, 1), PackByte(bits, 9), PackByte(bits, 17), PackByte(bits, 25)>>

-----------------------------------------------------------------------------
(* Signals derived from the registers during a cycle                       *)

(* dbg_done: both stages of the synchroniser of dbgif.done are high.       *)
dbg_done == r.done_cdc = 3

(* tfrram.we: the rising edge of done as seen through the synchroniser.    *)
tfrram_we == r.done_cdc = 2

(* tfrram.dat_w is driven from dbgif.dread only in the two transfer states. *)
tfrram_dat_w ==
    IF r.fsm \in {"DAP_Transfer_PROCESS", "DAP_TransferBlock_PROCESS"} THEN t.dread ELSE Zero32

(* Memory contents are kept for the addresses written so far; the rest     *)
(* hold their initial value 0.                                             *)
MemRead(mem, a) == IF a + 1 <= Len(mem) THEN mem[a + 1] ELSE Zero32

MemWrite(mem, a, w) ==
    [k \in 1..(IF a + 1 > Len(mem) THEN a + 1 ELSE Len(mem)) |->
        IF k = a + 1 THEN w ELSE IF k <= Len(mem) THEN mem[k] ELSE Zero32]

(* The host side of streamOut during the cycle.                            *)
HostHas == host.pi <= Len(cfg.pkts)

HostPayload == cfg.pkts[host.pi][host.bi]

HostFirst == host.bi = 1

HostLast == host.bi = Len(cfg.pkts[host.pi])

(* The inputs of one cycle: hv is streamOut.valid, sr is streamIn.ready.   *)
(* streamOut.ready is the negation of busy.                                *)
Inp(hv, sr) ==
    [valid   |-> hv,
     fire    |-> hv /\ ~r.busy,
     payload |-> IF hv THEN HostPayload ELSE 0,
     first   |-> hv /\ HostFirst,
     last    |-> hv /\ HostLast,
     ready   |-> sr]

(* Statements outside the FSM: streamIn.valid falls back to 0, the         *)
(* synchroniser shifts, and the RAM ports act on the current address.      *)
Defaults ==
    LET m2 == IF tfrram_we THEN MemWrite(r.mem, r.adr, tfrram_dat_w) ELSE r.mem
    IN [r EXCEPT !.valid = FALSE,
                 !.done_cdc = (r.done_cdc \div 2) + 2 * B2N(t.done),
                 !.mem = m2,
                 !.dat_r = MemRead(m2, r.adr)]

-----------------------------------------------------------------------------
(* Response handlers.  q is the register file being assembled for the next *)
(* cycle; right-hand sides read the current registers r.                   *)

(* A variant of RESP_Invalid that leaves the response length alone.        *)
RESP_Invalid_KeepsLength(q) ==
    [q EXCEPT !.txBlock = SetB(@, 0, DAP_Invalid), !.busy = TRUE, !.fsm = "RESPOND"]

RESP_Invalid(q) ==
    [q EXCEPT !.txBlock = SetB(@, 0, DAP_Invalid), !.txLen = 1, !.busy = TRUE,
              !.fsm = "RESPOND"]

(* A variant of Info_MaxPacketSize that reports the V1 size under both     *)
(* framings.                                                               *)
Info_MaxPacketSize_V1Only(q) ==
    [q EXCEPT !.txLen = 6,
              !.txBlock = SetBytes(@, 1, <<2, DAP_V1_MAX_PACKET_SIZE % 256,
                                           DAP_V1_MAX_PACKET_SIZE \div 256>>)]

(* Info 0xFF: the maximum packet size for the framing in use.              *)
Info_MaxPacketSize(q) ==
    IF cfg.isV2
    THEN [q EXCEPT !.txLen = 6,
                   !.txBlock = SetBytes(@, 1, <<2, DAP_V2_MAX_PACKET_SIZE % 256,
                                                DAP_V2_MAX_PACKET_SIZE \div 256>>)]
    ELSE [q EXCEPT !.txLen = 6,
                   !.txBlock = SetBytes(@, 1, <<2, DAP_V1_MAX_PACKET_SIZE % 256,
                                                DAP_V1_MAX_PACKET_SIZE \div 256>>)]

RESP_Info(q) ==
    LET id == GetB(r.rxBlock, 1)
        q1 == [q EXCEPT !.fsm = "RESPOND"]
    IN CASE id \in {1, 2, 3, 5, 6, 7, 8} ->
              [q1 EXCEPT !.txLen = 2, !.txBlock = SetB(@, 1, 0)]
         [] id = 4 ->
              [q1 EXCEPT !.txLen = 3 + DAP_PROTOCOL_STRING_LEN,
                         !.txBlock = SetBytes(@, 1, DAP_PROTOCOL_STRING \o <<0>>)]
         [] id = 9 ->
              [q1 EXCEPT !.txLen = 3 + DAP_VERSION_STRING_LEN,
                         !.txBlock = SetBytes(@, 1, DAP_VERSION_STRING \o <<0>>)]
         [] id = 240 ->
              [q1 EXCEPT !.txLen = 3, !.txBlock = SetBytes(@, 1, <<1, DAP_CAPABILITIES>>)]
         [] id = 241 ->
              [q1 EXCEPT !.txLen = 6,
                         !.txBlock = SetBytes(@, 1, <<8>> \o DAP_TD_TIMER_FREQ \o <<0>>)]
         [] id = 253 ->
              [q1 EXCEPT !.txLen = 6, !.txBlock = SetBytes(@, 1, <<4, 0, 0, 0, 0>>)]
         [] id = 254 ->
              [q1 EXCEPT !.txLen = 6, !.txBlock = SetBytes(@, 1, <<1, DAP_MAX_PACKET_COUNT>>)]
         [] id = 255 -> Info_MaxPacketSize(q1)
         [] OTHER -> RESP_Invalid(q1)

(* A variant of RESP_Not_Implemented that answers as for an unknown        *)
(* command.                                                                *)
RESP_Not_Implemented_AsInvalid(q) ==
    RESP_Invalid(q)

RESP_Not_Implemented(q) ==
    [q EXCEPT !.txBlock = SetB(@, 1, 255), !.fsm = "RESPOND"]

RESP_HostStatus(q) ==
    LET ty == GetB(r.rxBlock, 1)
        q1 == [q EXCEPT !.fsm = "RESPOND"]
    IN CASE ty = 0 -> [q1 EXCEPT !.connected = (GetB(r.rxBlock, 2) = 1)]
         [] ty = 1 -> [q1 EXCEPT !.running = (GetB(r.rxBlock, 2) = 1)]
         [] OTHER -> RESP_Invalid(q1)

(* A variant of RESP_Connect_Setup that does not take port 0 as the        *)
(* default port.                                                           *)
RESP_Connect_Setup_NoDefault(q) ==
    LET port == GetB(r.rxBlock, 1)
        q1 == RESP_Invalid(q)
        q2 == IF Bit(DAP_CAPABILITIES, 0) = 1 /\ port = 1
              THEN [q1 EXCEPT !.txBlock = SetBytes(@, 0, <<GetB(r.rxBlock, 0), 1>>),
                              !.command = CMD_SET_SWD, !.txLen = 2, !.go = TRUE,
                              !.fsm = "DAP_Wait_Connect_Done"]
              ELSE q1
    IN IF Bit(DAP_CAPABILITIES, 1) = 1 /\ port = 2
       THEN [q2 EXCEPT !.txBlock = SetBytes(@, 0, <<GetB(r.rxBlock, 0), 2>>),
                       !.command = CMD_SET_JTAG, !.txLen = 2, !.go = TRUE,
                       !.fsm = "DAP_Wait_Connect_Done"]
       ELSE q2

RESP_Connect_Setup(q) ==
    LET port == GetB(r.rxBlock, 1)
        q1 == RESP_Invalid(q)
        q2 == IF Bit(DAP_CAPABILITIES, 0) = 1
                 /\ ((port = 0 /\ DAP_CONNECT_DEFAULT = 1) \/ port = 1)
              THEN [q1 EXCEPT !.txBlock = SetBytes(@, 0, <<GetB(r.rxBlock, 0), 1>>),
                              !.command = CMD_SET_SWD, !.txLen = 2, !.go = TRUE,
                              !.fsm = "DAP_Wait_Connect_Done"]
              ELSE q1
    IN IF Bit(DAP_CAPABILITIES, 1) = 1
          /\ ((port = 0 /\ DAP_CONNECT_DEFAULT = 2) \/ port = 2)
       THEN [q2 EXCEPT !.txBlock = SetBytes(@, 0, <<GetB(r.rxBlock, 0), 2>>),
                       !.command = CMD_SET_JTAG, !.txLen = 2, !.go = TRUE,
                       !.fsm = "DAP_Wait_Connect_Done"]
       ELSE q2

RESP_Wait_Connect_Done(q) ==
    LET q1 == IF r.go /\ ~dbg_done THEN [q EXCEPT !.go = FALSE] ELSE q
    IN IF ~r.go /\ dbg_done THEN [q1 EXCEPT !.fsm = "RESPOND"] ELSE q1

RESP_Wait_Done(q) ==
    LET q1 == IF r.go /\ ~dbg_done THEN [q EXCEPT !.go = FALSE] ELSE q
    IN IF ~r.go /\ dbg_done
       THEN [q1 EXCEPT !.txBlock = SetB(@, 1, IF t.perr THEN 255 ELSE 0), !.fsm = "RESPOND"]
       ELSE q1

(* A variant of RESP_Disconnect that refuses the command.                  *)
RESP_Disconnect_Refusing(q) ==
    RESP_Invalid([q EXCEPT !.running = FALSE, !.connected = FALSE])

(* A variant of RESP_Disconnect that leaves the running flag alone.        *)
RESP_Disconnect_KeepsRunning(q) ==
    [q EXCEPT !.connected = FALSE, !.fsm = "RESPOND"]

RESP_Disconnect(q) ==
    [q EXCEPT !.running = FALSE, !.connected = FALSE, !.fsm = "RESPOND"]

RESP_WriteABORT(q) ==
    [q EXCEPT !.command = CMD_TRANSACT, !.apndp = 0, !.rnw = 0, !.addr32 = 0,
              !.dwrite = Get32(r.rxBlock, 2), !.go = TRUE, !.fsm = "DAP_Wait_Done"]

RESP_Delay(q) ==
    [q EXCEPT !.dwrite = <<GetB(r.rxBlock, 2), GetB(r.rxBlock, 1), 0, 0>>,
              !.command = CMD_WAIT, !.go = TRUE, !.fsm = "DAP_Wait_Done"]

RESP_ResetTarget(q) ==
    [q EXCEPT !.txBlock = SetBytes(@, 1, <<0, 1>>), !.txLen = 3,
              !.command = CMD_RESET, !.go = TRUE, !.fsm = "DAP_Wait_Done"]

RESP_SWJ_Pins_Setup(q) ==
    [q EXCEPT !.pinsin = Get16(r.rxBlock, 1), !.countdown = Get32(r.txBlock, 3),
              !.fsm = "DAP_SWJ_Pins_PROCESS"]

RESP_SWJ_Pins_Process(q) ==
    LET q1 == IF dbg_done THEN [q EXCEPT !.txBlock = SetB(@, 1, t.pinsout), !.txLen = 2] ELSE q
    IN [q1 EXCEPT !.fsm = "RESPOND"]

RESP_SWJ_Clock(q) ==
    [q EXCEPT !.dwrite = Get32(r.rxBlock, 1), !.command = CMD_SET_CLK, !.go = TRUE,
              !.fsm = "DAP_Wait_Done"]

RESP_SWD_Configure(q) ==
    [q EXCEPT !.dwrite = <<GetB(r.rxBlock, 1), 0, 0, 0>>, !.command = CMD_SET_SWD_CFG,
              !.go = TRUE, !.fsm = "DAP_Wait_Done"]

(* Six fields (IR length - 1), each the 6-bit difference of a 5-bit field  *)
(* of rxBlock and 1, concatenated and cut to the 32 bits of dwrite.        *)
RESP_JTAG_Configure(q) ==
    LET fld(k) == BitsOf(((GetB(r.rxBlock, k) \div 8) + 63) % 64, 6)
    IN [q EXCEPT !.dwrite = Pack32(fld(1) \o fld(2) \o fld(3) \o fld(4) \o fld(5) \o fld(6)),
                 !.command = CMD_SET_JTAG_CFG, !.go = TRUE, !.fsm = "DAP_Wait_Done"]

RESP_JTAG_IDCODE_Setup(q) ==
    [q EXCEPT !.command = CMD_JTAG_GET_ID, !.dwrite = <<GetB(r.rxBlock, 1), 0, 0, 0>>,
              !.txLen = 6, !.txBlock = SetBytes(@, 2, Zero32), !.go = TRUE,
              !.fsm = "JTAG_IDCODE_Process"]

RESP_JTAG_IDCODE_Process(q) ==
    IF ~dbg_done THEN [q EXCEPT !.go = FALSE]
    ELSE [q EXCEPT !.txBlock = SetBytes(@, 2, t.dread), !.fsm = "RESPOND"]

RESP_TransferConfigure(q) ==
    [q EXCEPT !.waitRetry = Get16(r.rxBlock, 2), !.matchRetry = Get16(r.rxBlock, 4),
              !.dwrite = <<GetB(r.rxBlock, 1), 0, 0, 0>>, !.command = CMD_SET_TFR_CFG,
              !.go = TRUE, !.fsm = "DAP_Wait_Done"]

-----------------------------------------------------------------------------
(* SWJ_Sequence                                                            *)

(* A variant of RESP_SWJ_Sequence_Setup that takes count 0 as 255 bits.    *)
RESP_SWJ_Sequence_Setup_Short(q) ==
    [q EXCEPT !.transferCount = IF GetB(r.rxBlock, 1) # 0 THEN GetB(r.rxBlock, 1) ELSE 255,
              !.txb = 0, !.dwrite = Zero32, !.pinsin = 4880, !.bitcount = 0,
              !.command = CMD_PINS_WRITE, !.fsm = "DAP_SWJ_Sequence_PROCESS"]

RESP_SWJ_Sequence_Setup(q) ==
    [q EXCEPT !.transferCount = IF GetB(r.rxBlock, 1) # 0 THEN GetB(r.rxBlock, 1) ELSE 256,
              !.txb = 0, !.dwrite = Zero32, !.pinsin = 4880, !.bitcount = 0,
              !.command = CMD_PINS_WRITE, !.fsm = "DAP_SWJ_Sequence_PROCESS"]

RESP_SWJ_Sequence_Process(q, in) ==
    CASE r.txb = 0 ->
           IF in.fire
           THEN [q EXCEPT !.tfrData = <<in.payload, 0, 0, 0>>, !.txb = 1, !.busy = TRUE]
           ELSE [q EXCEPT !.busy = FALSE]
      [] r.txb = 1 ->
           [q EXCEPT !.pinsin = (r.pinsin \div 4) * 4 + 2 * (r.tfrData[1] % 2),
                     !.tfrData = <<r.tfrData[1] \div 2, 0, 0, 0>>,
                     !.transferCount = (r.transferCount + Word16Size - 1) % Word16Size,
                     !.go = TRUE,
                     !.bitcount = (r.bitcount + 1) % 8,
                     !.txb = 2]
      [] r.txb = 2 ->
           LET q1 == IF ~dbg_done THEN [q EXCEPT !.go = FALSE] ELSE q
           IN IF ~r.go /\ dbg_done
              THEN [q1 EXCEPT !.pinsin = (r.pinsin \div 2) * 2 + 1, !.go = TRUE, !.txb = 3]
              ELSE q1
      [] r.txb = 3 ->
           LET q1 == IF ~dbg_done THEN [q EXCEPT !.go = FALSE] ELSE q
           IN IF ~r.go /\ dbg_done
              THEN IF r.transferCount # 0
                   THEN [q1 EXCEPT !.txb = IF r.bitcount # 0 THEN 1 ELSE 0]
                   ELSE [q1 EXCEPT !.fsm = "DAP_Wait_Done"]
              ELSE q1
      [] OTHER -> q

-----------------------------------------------------------------------------
(* DAP_Transfer                                                            *)

(* A variant of RESP_Transfer_Setup that answers an empty batch with a     *)
(* zero status byte.                                                       *)
RESP_Transfer_Setup_ZeroStatus(q) ==
    LET q1 == [q EXCEPT !.dapIndex = GetB(r.rxBlock, 1),
                        !.transferCount = GetB(r.rxBlock, 2),
                        !.adr = 0, !.busy = TRUE, !.txb = 0]
    IN IF GetB(r.rxBlock, 2) # 0
       THEN [q1 EXCEPT !.fsm = "DAP_Transfer_PROCESS"]
       ELSE [q1 EXCEPT !.txBlock = SetB(@, 2, 0), !.busy = FALSE, !.txLen = 3,
                       !.fsm = "RESPOND"]

RESP_Transfer_Setup(q) ==
    LET q1 == [q EXCEPT !.dapIndex = GetB(r.rxBlock, 1),
                        !.transferCount = GetB(r.rxBlock, 2),
                        !.adr = 0, !.busy = TRUE, !.txb = 0]
    IN IF GetB(r.rxBlock, 2) # 0
       THEN [q1 EXCEPT !.fsm = "DAP_Transfer_PROCESS"]
       ELSE [q1 EXCEPT !.txBlock = SetB(@, 2, 1), !.busy = FALSE, !.txLen = 3,
                       !.fsm = "RESPOND"]

(* Case 0: take the next transfer request byte from the stream.            *)
Transfer_GetRequest(q, in) ==
    IF ~in.fire
    THEN [q EXCEPT !.busy = FALSE]
    ELSE LET q1 == [q EXCEPT !.tfrReq = in.payload, !.retries = 0,
                             !.txBlock = SetB(@, 1, GetB(r.txBlock, 1) + 1)]
         IN IF Bit(in.payload, 1) = 0 \/ Bit(in.payload, 4) = 1 \/ Bit(in.payload, 5) = 1
            THEN [q1 EXCEPT !.txb = 1]
            ELSE [q1 EXCEPT !.txb = 5, !.busy = TRUE]

(* Cases 1-4: collect the four data bytes.  The match-mask branch is       *)
(* guarded by txb == 5 inside the cases 1..4.                              *)
Transfer_CollectData(q, in) ==
    IF in.fire
    THEN LET q1 == [q EXCEPT !.tfrData = SetB(@, r.txb - 1, in.payload), !.txb = r.txb + 1]
         IN IF Bit(r.tfrReq, 5) = 1 /\ r.txb = 5
            THEN [q1 EXCEPT !.mask = <<in.payload, r.tfrData[1], r.tfrData[2], r.tfrData[3]>>,
                            !.txb = 0]
            ELSE q1
    ELSE [q EXCEPT !.busy = FALSE]

(* Case 5: issue the transaction.                                          *)
Transfer_Issue(q) ==
    [q EXCEPT !.command = CMD_TRANSACT,
              !.apndp = Bit(r.tfrReq, 0),
              !.rnw = Bit(r.tfrReq, 1),
              !.addr32 = (r.tfrReq \div 4) % 4,
              !.dwrite = r.tfrData,
              !.go = TRUE,
              !.txb = r.txb + 1]

(* A variant of Transfer_OnWait that allows one retry more.                *)
Transfer_OnWait_OneMore(q) ==
    [q EXCEPT !.retries = (r.retries + 1) % Word16Size,
              !.txb = IF r.retries <= r.waitRetry THEN 5 ELSE 8]

(* A variant of Transfer_OnWait that raises go itself for the retry.       *)
Transfer_OnWait_RaisesGo(q) ==
    [q EXCEPT !.retries = (r.retries + 1) % Word16Size,
              !.go = TRUE,
              !.txb = IF r.retries < r.waitRetry THEN 6 ELSE 8]

(* Case 7, ack WAIT: count the retry and reissue or give up.               *)
Transfer_OnWait(q) ==
    [q EXCEPT !.retries = (r.retries + 1) % Word16Size,
              !.txb = IF r.retries < r.waitRetry THEN 5 ELSE 8]

(* Case 7, value-match request.                                            *)
Transfer_OnMatch(q) ==
    IF And32(t.dread, r.mask) # r.tfrData /\ r.matchretries < r.matchRetry
    THEN [q EXCEPT !.txBlock = SetB(@, 2, (GetB(@, 2) % 32) + 32 + 64 * (GetB(@, 2) \div 64)),
                   !.txb = 8]
    ELSE [q EXCEPT !.txb = 5]

(* A variant of Transfer_OnResult that keeps a word for writes as well.    *)
Transfer_OnResult_KeepsWrites(q) ==
    LET q1 == IF t.again \/ ~t.ignoreData
              THEN [q EXCEPT !.adr = (r.adr + 1) % RamAdrSize] ELSE q
    IN IF t.again
       THEN [q1 EXCEPT !.txb = 5]
       ELSE LET q2 == [q1 EXCEPT !.transferCount = (r.transferCount + Word16Size - 1) % Word16Size]
            IN IF t.ack = ACK_OK /\ ~t.perr /\ r.transferCount > 1
               THEN [q2 EXCEPT !.txb = 0]
               ELSE IF t.postedMode
                    THEN [q2 EXCEPT !.tfrReq = 14, !.retries = 0, !.txb = 5]
                    ELSE [q2 EXCEPT !.txb = 8]

(* A variant of Transfer_OnResult that wraps up without the flush read.    *)
Transfer_OnResult_NoFlush(q) ==
    LET q1 == IF t.again \/ (~t.ignoreData /\ r.rnw = 1)
              THEN [q EXCEPT !.adr = (r.adr + 1) % RamAdrSize] ELSE q
    IN IF t.again
       THEN [q1 EXCEPT !.txb = 5]
       ELSE LET q2 == [q1 EXCEPT !.transferCount = (r.transferCount + Word16Size - 1) % Word16Size]
            IN IF t.ack = ACK_OK /\ ~t.perr /\ r.transferCount > 1
               THEN [q2 EXCEPT !.txb = 0]
               ELSE [q2 EXCEPT !.txb = 8]

(* Case 7, any other completion.                                           *)
Transfer_OnResult(q) ==
    LET q1 == IF t.again \/ (~t.ignoreData /\ r.rnw = 1)
              THEN [q EXCEPT !.adr = (r.adr + 1) % RamAdrSize] ELSE q
    IN IF t.again
       THEN [q1 EXCEPT !.txb = 5]
       ELSE LET q2 == [q1 EXCEPT !.transferCount = (r.transferCount + Word16Size - 1) % Word16Size]
            IN IF t.ack = ACK_OK /\ ~t.perr /\ r.transferCount > 1
               THEN [q2 EXCEPT !.txb = 0]
               ELSE IF t.postedMode
                    THEN [q2 EXCEPT !.tfrReq = 14, !.retries = 0, !.txb = 5]
                    ELSE [q2 EXCEPT !.txb = 8]

(* Case 7: the transaction completed.                                      *)
Transfer_Complete(q) ==
    IF dbg_done
    THEN LET q1 == [q EXCEPT !.txBlock = SetB(@, 2, t.ack + 8 * B2N(t.perr))]
         IN IF t.ack = ACK_WAIT THEN Transfer_OnWait(q1)
            ELSE IF Bit(r.tfrReq, 4) = 1 THEN Transfer_OnMatch(q1)
            ELSE Transfer_OnResult(q1)
    ELSE q

(* Cases 8-10: send the three header bytes.                                *)
Transfer_SendHeader(q, in) ==
    IF in.ready
    THEN [q EXCEPT !.payload = GetB(r.txBlock, r.txb - 8),
                   !.valid = TRUE,
                   !.txb = r.txb + 1,
                   !.last = cfg.isV2 /\ r.txb = 10 /\ r.adr = 0]
    ELSE q

RESP_Transfer_Process(q0, in) ==
    LET q == [q0 EXCEPT !.busy = TRUE]
    IN CASE r.txb = 0 -> Transfer_GetRequest(q, in)
         [] r.txb \in 1..4 -> Transfer_CollectData(q, in)
         [] r.txb = 5 -> Transfer_Issue(q)
         [] r.txb = 6 -> IF ~dbg_done THEN [q EXCEPT !.go = FALSE, !.txb = 7] ELSE q
         [] r.txb = 7 -> Transfer_Complete(q)
         [] r.txb \in 8..10 -> Transfer_SendHeader(q, in)
         [] r.txb = 11 ->
              [q EXCEPT !.fsm = "UPLOAD_RXED_DATA", !.txb = 0,
                        !.txedLen = (r.adr * 4 + 3) % LenRegSize]
         [] OTHER -> q

-----------------------------------------------------------------------------
(* DAP_TransferBlock                                                       *)

RESP_TransferBlock_Setup(q) ==
    LET req == GetB(r.rxBlock, 4)
        q1 == [q EXCEPT !.adr = 0,
                        !.command = CMD_TRANSACT,
                        !.dapIndex = GetB(r.rxBlock, 1),
                        !.transferCount = Get16(r.rxBlock, 2),
                        !.apndp = Bit(req, 0),
                        !.rnw = Bit(req, 1),
                        !.addr32 = (req \div 4) % 4,
                        !.txBlock = SetBytes(@, 1, <<1, 0>>),
                        !.txb = IF Bit(req, 1) = 1 THEN 4 ELSE 0,
                        !.retries = 0]
    IN IF Get16(r.rxBlock, 2) # 0
       THEN [q1 EXCEPT !.fsm = "DAP_TransferBlock_PROCESS"]
       ELSE [q1 EXCEPT !.txBlock = SetBytes(@, 1, <<1, 0, 0>>), !.txLen = 4,
                       !.fsm = "RESPOND"]

(* Cases 0-3: collect the four data bytes of a write.                      *)
TransferBlock_CollectData(q, in) ==
    IF in.fire
    THEN [q EXCEPT !.tfrData = SetB(@, r.txb, in.payload), !.txb = r.txb + 1]
    ELSE [q EXCEPT !.busy = FALSE]

(* Case 4: issue the transaction and count the attempt.                    *)
TransferBlock_Issue(q) ==
    [q EXCEPT !.dwrite = r.tfrData, !.go = TRUE,
              !.retries = (r.retries + 1) % Word16Size, !.txb = 5]

(* Case 6, ack WAIT.                                                       *)
TransferBlock_OnWait(q) ==
    [q EXCEPT !.txb = IF r.retries < r.waitRetry THEN 4 ELSE 7]

(* Case 6, any other completion.                                           *)
TransferBlock_OnResult(q) ==
    LET q1 == IF ~t.ignoreData /\ r.rnw = 1
              THEN [q EXCEPT !.adr = (r.adr + 1) % RamAdrSize] ELSE q
        cnt == Get16(r.txBlock, 1)
    IN IF t.again
       THEN [q1 EXCEPT !.retries = 0, !.go = TRUE, !.txb = 5]
       ELSE LET q2 == [q1 EXCEPT !.transferCount = (r.transferCount + Word16Size - 1) % Word16Size]
            IN IF t.ack = ACK_OK /\ ~t.perr /\ r.transferCount > 1
               THEN [q2 EXCEPT !.retries = 0,
                               !.txBlock = SetBytes(@, 1, <<(cnt + 1) % 256,
                                                            ((cnt + 1) \div 256) % 256>>),
                               !.txb = IF r.rnw = 1 THEN 4 ELSE 0]
               ELSE IF t.postedMode
                    THEN [q2 EXCEPT !.rnw = 1, !.retries = 0, !.apndp = 0, !.addr32 = 3,
                                    !.txb = 4]
                    ELSE [q2 EXCEPT !.txb = 7]

(* Case 6: the transaction completed.                                      *)
TransferBlock_Complete(q) ==
    IF dbg_done
    THEN LET q1 == [q EXCEPT !.txBlock = SetB(@, 3, t.ack + 8 * B2N(t.perr))]
         IN IF t.ack = ACK_WAIT THEN TransferBlock_OnWait(q1) ELSE TransferBlock_OnResult(q1)
    ELSE q

(* Cases 7-10: send the four header bytes.                                 *)
TransferBlock_SendHeader(q, in) ==
    IF in.ready
    THEN [q EXCEPT !.payload = GetB(r.txBlock, r.txb - 7),
                   !.valid = TRUE,
                   !.txb = r.txb + 1,
                   !.last = cfg.isV2 /\ r.txb = 10 /\ r.rnw = 0]
    ELSE q

RESP_TransferBlock_Process(q0, in) ==
    LET q == [q0 EXCEPT !.busy = TRUE]
    IN CASE r.txb \in 0..3 -> TransferBlock_CollectData(q, in)
         [] r.txb = 4 -> TransferBlock_Issue(q)
         [] r.txb = 5 -> IF ~dbg_done THEN [q EXCEPT !.go = FALSE, !.txb = 6] ELSE q
         [] r.txb = 6 -> TransferBlock_Complete(q)
         [] r.txb \in 7..10 -> TransferBlock_SendHeader(q, in)
         [] r.txb = 11 ->
              [q EXCEPT !.txb = 0, !.txedLen = (r.adr * 4 + 4) % LenRegSize,
                        !.fsm = "UPLOAD_RXED_DATA"]
         [] OTHER -> q

-----------------------------------------------------------------------------
(* UPLOAD_RXED_DATA: drain the words stored in the RAM                     *)

(* A variant of Upload_SendWord that sends the word's bytes one late.      *)
Upload_SendWord_Shifted(q, in) ==
    LET q1 == [q EXCEPT !.valid = TRUE]
    IN IF in.ready /\ r.valid
       THEN [q1 EXCEPT !.txb = r.txb + 1,
                       !.payload = GetB(r.dat_r, r.txb - 3),
                       !.last = cfg.isV2 /\ r.transferCount = 0 /\ r.txb = 5,
                       !.valid = (r.txb # 6)]
       ELSE q1

(* Cases 3-6: the four bytes of the word at the RAM's read port.           *)
Upload_SendWord(q, in) ==
    LET q1 == [q EXCEPT !.valid = TRUE]
    IN IF in.ready /\ r.valid
       THEN [q1 EXCEPT !.txb = r.txb + 1,
                       !.payload = GetB(r.dat_r, r.txb - 2),
                       !.last = cfg.isV2 /\ r.transferCount = 0 /\ r.txb = 5,
                       !.valid = (r.txb # 6)]
       ELSE q1

(* Case 7: one word sent.                                                  *)
Upload_NextWord(q, in) ==
    IF in.ready
    THEN IF r.transferCount = 0
         THEN IF cfg.isV2 THEN [q EXCEPT !.fsm = "IDLE"] ELSE [q EXCEPT !.fsm = "V1PACKETFILL"]
         ELSE [q EXCEPT !.txb = 1, !.adr = (r.adr + 1) % RamAdrSize]
    ELSE q

RESP_Transfer_Complete(q0, in) ==
    LET q == [q0 EXCEPT !.busy = TRUE]
    IN CASE r.txb = 0 ->
              IF r.adr # 0
              THEN [q EXCEPT !.transferCount = r.adr, !.adr = 0, !.txb = 1]
              ELSE [q EXCEPT !.txb = 7]
         [] r.txb = 1 -> [q EXCEPT !.txb = 2]
         [] r.txb = 2 ->
              [q EXCEPT !.transferCount = (r.transferCount + Word16Size - 1) % Word16Size,
                        !.payload = GetB(r.dat_r, 0), !.txb = 3]
         [] r.txb \in 3..6 -> Upload_SendWord(q, in)
         [] r.txb = 7 -> Upload_NextWord(q, in)
         [] OTHER -> q

-----------------------------------------------------------------------------
(* DAP_JTAG_Sequence                                                       *)

(* n.bit_select(i,1).eq(b) on a register of w bits.                        *)
SetBit(n, i, b, w) == IF i < w THEN n - Bit(n, i) * (2 ^ i) + b * (2 ^ i) ELSE n

RESP_JTAG_Sequence_Setup(q) ==
    [q EXCEPT !.seqCount = GetB(r.rxBlock, 1), !.dwrite = Zero32, !.txedLen = 2,
              !.pinsin = 5904, !.command = CMD_PINS_WRITE, !.txb = 0,
              !.fsm = "DAP_JTAG_Sequence_PROCESS"]

(* Case 0: the command id opens the response.                              *)
JTAG_SendFront(q, in) ==
    IF in.ready
    THEN [q EXCEPT !.payload = DAP_JTAG_Sequence, !.last = FALSE, !.valid = TRUE,
                   !.pendingTx = 0, !.txb = IF r.seqCount # 0 THEN 1 ELSE 7]
    ELSE q

(* Case 1: the descriptor byte of the next sequence.                       *)
JTAG_GetInfo(q, in) ==
    IF in.fire
    THEN [q EXCEPT !.seqCount = (r.seqCount + 255) % 256,
                   !.tckCycles = in.payload % 64,
                   !.pinsin = SetBit(r.pinsin, 1, Bit(in.payload, 6), 16),
                   !.tdotgt = IF Bit(in.payload, 7) = 1
                              THEN (IF in.payload % 64 # 0 THEN in.payload % 64 ELSE 64)
                              ELSE 0,
                   !.txb = 2]
    ELSE [q EXCEPT !.busy = FALSE]

(* Case 2: the next TDI byte.                                              *)
JTAG_GetTDI(q, in) ==
    IF in.fire
    THEN [q EXCEPT !.tdiData = in.payload, !.tdiCount = 0, !.txb = 3]
    ELSE [q EXCEPT !.busy = FALSE]

(* A variant of JTAG_ClockLow that takes the TDI bits from the top of the  *)
(* byte down.                                                              *)
JTAG_ClockLow_MsbFirst(q) ==
    [q EXCEPT !.pinsin = SetBit(SetBit(r.pinsin, 2, Bit(r.tdiData, 7 - (r.tdiCount % 8)), 16), 0, 0, 16),
              !.go = TRUE, !.txb = 4]

(* Case 3: TDI bit out, TCK low.                                           *)
JTAG_ClockLow(q) ==
    [q EXCEPT !.pinsin = SetBit(SetBit(r.pinsin, 2, Bit(r.tdiData, r.tdiCount), 16), 0, 0, 16),
              !.go = TRUE, !.txb = 4]

(* Case 4: once the write is done, TCK high.                               *)
JTAG_ClockHigh(q) ==
    LET q1 == IF ~dbg_done THEN [q EXCEPT !.go = FALSE] ELSE q
    IN IF ~r.go /\ dbg_done
       THEN [q1 EXCEPT !.pinsin = SetBit(r.pinsin, 0, 1, 16), !.go = TRUE, !.txb = 5]
       ELSE q1

(* A variant of JTAG_Capture that fills the byte from its top bit down.    *)
JTAG_Capture_MsbFirst(q) ==
    LET q1 == IF ~dbg_done THEN [q EXCEPT !.go = FALSE] ELSE q
    IN IF ~r.go /\ dbg_done
       THEN LET q2 == [q1 EXCEPT !.tckCycles = (r.tckCycles + 63) % 64,
                                 !.tdiCount = (r.tdiCount + 1) % 16,
                                 !.txb = 6]
            IN IF r.tdotgt # 0
               THEN [q2 EXCEPT !.can = (Bit(t.pinsout, 3) = 1),
                               !.tdoBuild = SetBit(r.tdoBuild, 7 - r.tdoCount,
                                                   Bit(t.pinsout, 3), 8),
                               !.tdoCount = (r.tdoCount + 1) % 16,
                               !.tdotgt = r.tdotgt - 1]
               ELSE q2
       ELSE q1

(* Case 5: the clock pulse is complete; capture TDO when asked to.         *)
JTAG_Capture(q) ==
    LET q1 == IF ~dbg_done THEN [q EXCEPT !.go = FALSE] ELSE q
    IN IF ~r.go /\ dbg_done
       THEN LET q2 == [q1 EXCEPT !.tckCycles = (r.tckCycles + 63) % 64,
                                 !.tdiCount = (r.tdiCount + 1) % 16,
                                 !.txb = 6]
            IN IF r.tdotgt # 0
               THEN [q2 EXCEPT !.can = (Bit(t.pinsout, 3) = 1),
                               !.tdoBuild = SetBit(r.tdoBuild, r.tdoCount, Bit(t.pinsout, 3), 8),
                               !.tdoCount = (r.tdoCount + 1) % 16,
                               !.tdotgt = r.tdotgt - 1]
               ELSE q2
       ELSE q1

(* Case 6: send a completed byte (the one before the byte being built),    *)
(* or move on.                                                             *)
JTAG_Emit(q, in) ==
    IF (r.tdotgt = 0 /\ r.tdoCount # 0) \/ r.tdoCount = 8
    THEN IF in.ready
         THEN [q EXCEPT !.payload = r.pendingTx, !.valid = TRUE, !.pendingTx = r.tdoBuild,
                        !.tdoCount = 0, !.tdoBuild = 0,
                        !.txedLen = (r.txedLen + 1) % LenRegSize]
         ELSE q
    ELSE IF r.tckCycles = 0
         THEN [q EXCEPT !.txb = IF r.seqCount # 0 THEN 1 ELSE 7]
         ELSE [q EXCEPT !.txb = IF r.tdiCount = 8 THEN 2 ELSE 3]

(* Case 7: the final byte.                                                 *)
JTAG_SendFinal(q, in) ==
    IF in.ready
    THEN [q EXCEPT !.payload = r.pendingTx,
                   !.last = cfg.isV2 \/ r.txedLen = 64,
                   !.valid = TRUE, !.txb = 8]
    ELSE q

RESP_JTAG_Sequence_PROCESS(q0, in) ==
    LET q == [q0 EXCEPT !.busy = TRUE, !.valid = FALSE, !.can = FALSE]
    IN CASE r.txb = 0 -> JTAG_SendFront(q, in)
         [] r.txb = 1 -> JTAG_GetInfo(q, in)
         [] r.txb = 2 -> JTAG_GetTDI(q, in)
         [] r.txb = 3 -> JTAG_ClockLow(q)
         [] r.txb = 4 -> JTAG_ClockHigh(q)
         [] r.txb = 5 -> JTAG_Capture(q)
         [] r.txb = 6 -> JTAG_Emit(q, in)
         [] r.txb = 7 -> JTAG_SendFinal(q, in)
         [] r.txb = 8 ->
              IF cfg.isV2 \/ r.txedLen = 64 THEN [q EXCEPT !.fsm = "IDLE"]
              ELSE [q EXCEPT !.fsm = "V1PACKETFILL"]
         [] OTHER -> q

-----------------------------------------------------------------------------
(* The top-level FSM                                                       *)

(* IDLE: classify the first byte of a packet.                              *)
IDLE_Classify(q, in) ==
    LET id == in.payload
        toRx(n) == IF ~in.last THEN [q EXCEPT !.rxLen = n, !.fsm = "RxParams"]
                   ELSE [q EXCEPT !.rxLen = n]
    IN CASE id \in {DAP_Disconnect, DAP_ResetTarget, DAP_SWO_Status, DAP_TransferAbort} ->
              [q EXCEPT !.rxLen = 1, !.busy = TRUE, !.fsm = "RxParams"]
         [] id \in {DAP_Info, DAP_Connect, DAP_SWD_Configure, DAP_SWO_Transport,
                    DAP_SWJ_Sequence, DAP_SWO_Mode, DAP_SWO_Control, DAP_SWO_ExtendedStatus,
                    DAP_JTAG_IDCODE, DAP_JTAG_Sequence} -> toRx(2)
         [] id \in {DAP_HostStatus, DAP_SWO_Data, DAP_Delay, DAP_JTAG_Configure,
                    DAP_Transfer} -> toRx(3)
         [] id \in {DAP_SWO_Baudrate, DAP_SWJ_Clock, DAP_TransferBlock} -> toRx(5)
         [] id \in {DAP_WriteABORT, DAP_TransferConfigure} -> toRx(6)
         [] id = DAP_SWJ_Pins -> toRx(7)
         [] id = DAP_SWD_Sequence ->
              IF ~in.last THEN [q EXCEPT !.fsm = "DAP_SWD_Sequence_GetCount"] ELSE q
         [] id = DAP_ExecuteCommands ->
              IF ~in.last THEN [q EXCEPT !.fsm = "DAP_ExecuteCommands_GetNum"] ELSE q
         [] id = DAP_QueueCommands ->
              IF ~in.last THEN [q EXCEPT !.fsm = "DAP_QueueCommands_GetNum"] ELSE q
         [] OTHER -> RESP_Invalid(q)

(* A variant of IDLE_State that does not look at the first marker.         *)
IDLE_State_AnyByte(q0, in) ==
    LET q == [q0 EXCEPT !.txedLen = 0, !.busy = FALSE]
    IN IF in.fire
       THEN IDLE_Classify([q EXCEPT !.fsm = "ProtocolError",
                                    !.rxedLen = 1,
                                    !.rxBlock = SetB(@, 0, in.payload),
                                    !.txBlock = SetBytes(@, 0, <<in.payload, 0>>),
                                    !.txLen = 2], in)
       ELSE q

(* A variant of IDLE_State that leaves the received count as it was.       *)
IDLE_State_KeepsCount(q0, in) ==
    LET q == [q0 EXCEPT !.txedLen = 0, !.busy = FALSE]
    IN IF in.fire /\ in.first
       THEN IDLE_Classify([q EXCEPT !.fsm = "ProtocolError",
                                    !.rxBlock = SetB(@, 0, in.payload),
                                    !.txBlock = SetBytes(@, 0, <<in.payload, 0>>),
                                    !.txLen = 2], in)
       ELSE q

IDLE_State(q0, in) ==
    LET q == [q0 EXCEPT !.txedLen = 0, !.busy = FALSE]
    IN IF in.fire /\ in.first
       THEN IDLE_Classify([q EXCEPT !.fsm = "ProtocolError",
                                    !.rxedLen = 1,
                                    !.rxBlock = SetB(@, 0, in.payload),
                                    !.txBlock = SetBytes(@, 0, <<in.payload, 0>>),
                                    !.txLen = 2], in)
       ELSE q

(* A variant of RESPOND_State that sends one byte beyond the length.       *)
RESPOND_State_OneMore(q, in) ==
    IF r.txedLen <= r.txLen
    THEN LET q1 == [q EXCEPT !.valid = TRUE,
                             !.payload = GetB(r.txBlock, r.txedLen),
                             !.last = cfg.isV2 /\ r.txedLen = r.txLen - 1]
         IN IF in.ready /\ r.valid
            THEN [q1 EXCEPT !.txedLen = (r.txedLen + 1) % LenRegSize, !.valid = FALSE]
            ELSE q1
    ELSE IF cfg.isV2 \/ r.txedLen = DAP_V1_MAX_PACKET_SIZE
         THEN [q EXCEPT !.valid = FALSE, !.busy = FALSE, !.fsm = "IDLE"]
         ELSE [q EXCEPT !.fsm = "V1PACKETFILL"]

RESPOND_State(q, in) ==
    IF r.txedLen < r.txLen
    THEN LET q1 == [q EXCEPT !.valid = TRUE,
                             !.payload = GetB(r.txBlock, r.txedLen),
                             !.last = cfg.isV2 /\ r.txedLen = r.txLen - 1]
         IN IF in.ready /\ r.valid
            THEN [q1 EXCEPT !.txedLen = (r.txedLen + 1) % LenRegSize, !.valid = FALSE]
            ELSE q1
    ELSE IF cfg.isV2 \/ r.txedLen = DAP_V1_MAX_PACKET_SIZE
         THEN [q EXCEPT !.valid = FALSE, !.busy = FALSE, !.fsm = "IDLE"]
         ELSE [q EXCEPT !.fsm = "V1PACKETFILL"]

(* V1PACKETFILL.  The statements streamIn.valid.eq(0) and busy.eq(0) of    *)
(* the two branches that leave the state are not added to a domain, so     *)
(* they assign nothing: only the state changes there.                      *)
V1PACKETFILL_State(q, in) ==
    IF r.txedLen < DAP_V1_MAX_PACKET_SIZE
    THEN LET q1 == [q EXCEPT !.valid = TRUE, !.payload = 0]
         IN IF r.txedLen < DAP_V1_MAX_PACKET_SIZE - 1
            THEN IF in.ready /\ r.valid
                 THEN [q1 EXCEPT !.txedLen = (r.txedLen + 1) % LenRegSize, !.valid = FALSE]
                 ELSE q1
            ELSE [q1 EXCEPT !.fsm = "IDLE"]
    ELSE [q EXCEPT !.fsm = "IDLE"]

RxParams_Dispatch(q) ==
    LET id == GetB(r.rxBlock, 0)
    IN CASE id = DAP_Info -> RESP_Info(q)
         [] id = DAP_HostStatus -> RESP_HostStatus(q)
         [] id = DAP_Connect -> RESP_Connect_Setup(q)
         [] id = DAP_Disconnect -> RESP_Disconnect(q)
         [] id = DAP_WriteABORT -> RESP_WriteABORT(q)
         [] id = DAP_Delay -> RESP_Delay(q)
         [] id = DAP_ResetTarget -> RESP_ResetTarget(q)
         [] id = DAP_SWJ_Pins -> RESP_SWJ_Pins_Setup(q)
         [] id = DAP_SWJ_Clock -> RESP_SWJ_Clock(q)
         [] id = DAP_SWJ_Sequence -> RESP_SWJ_Sequence_Setup(q)
         [] id = DAP_SWD_Configure -> RESP_SWD_Configure(q)
         [] id \in {DAP_SWO_Transport, DAP_SWO_Mode, DAP_SWO_Baudrate, DAP_SWO_Control,
                    DAP_SWO_Status, DAP_SWO_ExtendedStatus, DAP_SWO_Data} ->
              RESP_Not_Implemented(q)
         [] id = DAP_JTAG_Sequence -> RESP_JTAG_Sequence_Setup(q)
         [] id = DAP_JTAG_Configure -> RESP_JTAG_Configure(q)
         [] id = DAP_JTAG_IDCODE -> RESP_JTAG_IDCODE_Setup(q)
         [] id = DAP_TransferConfigure -> RESP_TransferConfigure(q)
         [] id = DAP_Transfer -> RESP_Transfer_Setup(q)
         [] id = DAP_TransferBlock -> RESP_TransferBlock_Setup(q)
         [] OTHER -> RESP_Invalid(q)

(* A variant of RxParams_Grab that stores each byte one place too low.     *)
RxParams_Grab_OneLow(q, in) ==
    LET q1 == [q EXCEPT !.rxBlock = SetB(@, r.rxedLen - 1, in.payload),
                        !.rxedLen = (r.rxedLen + 1) % 8]
        q2 == IF r.rxedLen + 1 = r.rxLen THEN [q1 EXCEPT !.busy = TRUE] ELSE q1
    IN IF in.last /\ r.rxedLen + 1 # r.rxLen THEN RESP_Invalid(q2) ELSE q2

(* A variant of RxParams_Grab that takes an early end of packet as the     *)
(* end of the parameters and dispatches the command with what it has.      *)
RxParams_Grab_EndDispatches(q, in) ==
    LET q1 == [q EXCEPT !.rxBlock = SetB(@, r.rxedLen, in.payload),
                        !.rxedLen = (r.rxedLen + 1) % 8]
        q2 == IF r.rxedLen + 1 = r.rxLen THEN [q1 EXCEPT !.busy = TRUE] ELSE q1
    IN IF in.last /\ r.rxedLen + 1 # r.rxLen
       THEN [q2 EXCEPT !.rxedLen = r.rxLen, !.busy = TRUE] ELSE q2

(* RxParams: take the next parameter byte of the packet.                   *)
RxParams_Grab(q, in) ==
    LET q1 == [q EXCEPT !.rxBlock = SetB(@, r.rxedLen, in.payload),
                        !.rxedLen = (r.rxedLen + 1) % 8]
        q2 == IF r.rxedLen + 1 = r.rxLen THEN [q1 EXCEPT !.busy = TRUE] ELSE q1
    IN IF in.last /\ r.rxedLen + 1 # r.rxLen THEN RESP_Invalid(q2) ELSE q2

RxParams_State(q, in) ==
    IF r.rxedLen = r.rxLen THEN RxParams_Dispatch(q)
    ELSE IF in.fire THEN RxParams_Grab(q, in)
    ELSE q

-----------------------------------------------------------------------------
(* The debug transactor (dbgif), at its interface: it accepts a request    *)
(* when go is high (done falls), and completes it once go has been         *)
(* released (done rises, the result registers are loaded).  tg says        *)
(* whether it moves in this cycle.  The results of the n-th transaction of *)
(* a packet are taken from the scenario's script, cyclically.              *)

ScriptAt(n) == cfg.script[n + 1]

DbgAccepts(tg) == t.dstate = "idle" /\ r.go /\ tg

DbgCompletes(tg) == t.dstate = "run" /\ ~r.go /\ tg

DbgStep(tg) ==
    IF DbgAccepts(tg) THEN [t EXCEPT !.dstate = "run", !.done = FALSE]
    ELSE IF DbgCompletes(tg)
         THEN LET res == ScriptAt(t.n)
              IN [t EXCEPT !.dstate = "idle", !.done = TRUE, !.n = (t.n + 1) % Len(cfg.script),
                           !.ack = res.ack, !.perr = res.perr, !.again = res.again,
                           !.postedMode = res.postedMode, !.ignoreData = res.ignoreData,
                           !.dread = res.dread, !.pinsout = res.pinsout]
         ELSE t

(* The host side of streamOut: the next byte of the packets to send.       *)
HostStep(in) ==
    IF in.fire
    THEN IF HostLast THEN [pi |-> host.pi + 1, bi |-> 1]
         ELSE [pi |-> host.pi, bi |-> host.bi + 1]
    ELSE host

-----------------------------------------------------------------------------
(* Bounds of the model                                                     *)

(* Entries kept in the per-packet logs of transactions and go edges.       *)
MaxLog == 12

(* Largest waitRetry / matchRetry configured, largest block read count.    *)
MaxRetry == 2
MaxBlock == 3

(* Entries kept in the per-packet log of pin writes.                       *)
MaxPins == 520

-----------------------------------------------------------------------------
(* Observation of a run (history only; nothing of the core reads it).      *)
(* cur is the number of the packet whose first byte IDLE took last; the    *)
(* logs are kept per packet, entry cur + 1.  out holds what the sink       *)
(* accepted (valid and ready), pins the three low bits of pinsin (bit 0    *)
(* the clock, bits 1 and 2 the data outputs) of every pin write the        *)
(* transactor took, emit what the core                                     *)
(* presented: a valid cycle *)
(* presents a new byte unless the cycle before was valid and not accepted  *)
(* (held), in which case the same byte is still waiting.  req follows the  *)
(* last request as the core sees it: raised when go rose, low once         *)
(* dbg_done was seen low after that, done once it was seen high again;     *)
(* riseOk says that every rise of go so far came when the request before   *)
(* it, if any, had been seen through.                                      *)

(* The registers a command may configure, as they stand when a packet      *)
(* starts; snap keeps them for the packet being served.                    *)
KeptRegs(q) ==
    [connected |-> q.connected, running |-> q.running, waitRetry |-> q.waitRetry,
     matchRetry |-> q.matchRetry, mask |-> q.mask]

TxnOf ==
    [command |-> r.command, apndp |-> r.apndp, rnw |-> r.rnw, addr32 |-> r.addr32,
     dwrite |-> r.dwrite, pinsin |-> r.pinsin]

PacketStarts(in) == r.fsm = "IDLE" /\ in.fire /\ in.first

ObsStep(rn, in, tg) ==
    LET c == obs.cur + 1
        o1 == IF r.valid /\ in.ready
              THEN [obs EXCEPT !.out[c] = Append(@, <<r.payload, B2N(r.last)>>)] ELSE obs
        o2 == IF r.valid /\ obs.first[c] = -1 THEN [o1 EXCEPT !.first[c] = r.payload] ELSE o1
        o3 == IF ~r.go /\ rn.go /\ obs.go[c] < MaxLog THEN [o2 EXCEPT !.go[c] = @ + 1] ELSE o2
        o4 == IF DbgAccepts(tg) /\ Len(obs.txns[c]) < MaxLog
              THEN [o3 EXCEPT !.txns[c] = Append(@, TxnOf)] ELSE o3
        o4p == IF DbgAccepts(tg) /\ r.command = CMD_PINS_WRITE /\ Len(obs.pins[c]) < MaxPins
               THEN [o4 EXCEPT !.pins[c] = Append(@, r.pinsin % 8)] ELSE o4
        o5 == IF r.valid /\ ~obs.held
              THEN [o4p EXCEPT !.emit[c] = Append(@, <<r.payload, B2N(r.last)>>)] ELSE o4p
        o6 == [o5 EXCEPT !.held = r.valid /\ ~in.ready]
        seen == CASE obs.req = "raised" /\ ~dbg_done -> "low"
                  [] obs.req = "low" /\ dbg_done -> "done"
                  [] OTHER -> obs.req
        o7 == IF ~r.go /\ rn.go
              THEN [o6 EXCEPT !.req = "raised",
                              !.riseOk = @ /\ seen \in {"none", "done"}]
              ELSE [o6 EXCEPT !.req = seen]
    IN IF PacketStarts(in) THEN [o7 EXCEPT !.cur = host.pi, !.snap = KeptRegs(r)] ELSE o7

-----------------------------------------------------------------------------
(* One clock cycle                                                         *)

HostValidChoices == IF HostHas THEN BOOLEAN ELSE {FALSE}

SinkReadyChoices == IF cfg.sinkStall THEN BOOLEAN ELSE {TRUE}

Step(rn, in, tg) ==
    /\ r' = rn
    /\ t' = IF PacketStarts(in) THEN [DbgStep(tg) EXCEPT !.n = 0] ELSE DbgStep(tg)
    /\ host' = HostStep(in)
    /\ obs' = ObsStep(rn, in, tg)
    /\ UNCHANGED cfg

TickIDLE ==
    /\ r.fsm = "IDLE"
    /\ \E hv \in HostValidChoices, sr \in SinkReadyChoices, tg \in BOOLEAN :
          Step(IDLE_State(Defaults, Inp(hv, sr)), Inp(hv, sr), tg)

TickRxParams ==
    /\ r.fsm = "RxParams"
    /\ \E hv \in HostValidChoices, sr \in SinkReadyChoices, tg \in BOOLEAN :
          Step(RxParams_State(Defaults, Inp(hv, sr)), Inp(hv, sr), tg)

TickRESPOND ==
    /\ r.fsm = "RESPOND"
    /\ \E hv \in HostValidChoices, sr \in SinkReadyChoices, tg \in BOOLEAN :
          Step(RESPOND_State(Defaults, Inp(hv, sr)), Inp(hv, sr), tg)

TickV1PACKETFILL ==
    /\ r.fsm = "V1PACKETFILL"
    /\ \E hv \in HostValidChoices, sr \in SinkReadyChoices, tg \in BOOLEAN :
          Step(V1PACKETFILL_State(Defaults, Inp(hv, sr)), Inp(hv, sr), tg)

TickProtocolError ==
    /\ r.fsm = "ProtocolError"
    /\ \E hv \in HostValidChoices, sr \in SinkReadyChoices, tg \in BOOLEAN :
          Step(RESP_Invalid(Defaults), Inp(hv, sr), tg)

(* The states entered for SWD_Sequence, ExecuteCommands and QueueCommands.  *)
TickUnsupported ==
    /\ r.fsm \in {"DAP_SWD_Sequence_GetCount", "DAP_ExecuteCommands_GetNum",
                  "DAP_QueueCommands_GetNum"}
    /\ \E hv \in HostValidChoices, sr \in SinkReadyChoices, tg \in BOOLEAN :
          Step(RESP_Invalid(Defaults), Inp(hv, sr), tg)

TickSWJ_Pins_PROCESS ==
    /\ r.fsm = "DAP_SWJ_Pins_PROCESS"
    /\ \E hv \in HostValidChoices, sr \in SinkReadyChoices, tg \in BOOLEAN :
          Step(RESP_SWJ_Pins_Process(Defaults), Inp(hv, sr), tg)

TickSWJ_Sequence_PROCESS ==
    /\ r.fsm = "DAP_SWJ_Sequence_PROCESS"
    /\ \E hv \in HostValidChoices, sr \in SinkReadyChoices, tg \in BOOLEAN :
          Step(RESP_SWJ_Sequence_Process(Defaults, Inp(hv, sr)), Inp(hv, sr), tg)

TickJTAG_Sequence_PROCESS ==
    /\ r.fsm = "DAP_JTAG_Sequence_PROCESS"
    /\ \E hv \in HostValidChoices, sr \in SinkReadyChoices, tg \in BOOLEAN :
          Step(RESP_JTAG_Sequence_PROCESS(Defaults, Inp(hv, sr)), Inp(hv, sr), tg)

TickTransfer_PROCESS ==
    /\ r.fsm = "DAP_Transfer_PROCESS"
    /\ \E hv \in HostValidChoices, sr \in SinkReadyChoices, tg \in BOOLEAN :
          Step(RESP_Transfer_Process(Defaults, Inp(hv, sr)), Inp(hv, sr), tg)

TickTransferBlock_PROCESS ==
    /\ r.fsm = "DAP_TransferBlock_PROCESS"
    /\ \E hv \in HostValidChoices, sr \in SinkReadyChoices, tg \in BOOLEAN :
          Step(RESP_TransferBlock_Process(Defaults, Inp(hv, sr)), Inp(hv, sr), tg)

TickUPLOAD_RXED_DATA ==
    /\ r.fsm = "UPLOAD_RXED_DATA"
    /\ \E hv \in HostValidChoices, sr \in SinkReadyChoices, tg \in BOOLEAN :
          Step(RESP_Transfer_Complete(Defaults, Inp(hv, sr)), Inp(hv, sr), tg)

TickJTAG_IDCODE_Process ==
    /\ r.fsm = "JTAG_IDCODE_Process"
    /\ \E hv \in HostValidChoices, sr \in SinkReadyChoices, tg \in BOOLEAN :
          Step(RESP_JTAG_IDCODE_Process(Defaults), Inp(hv, sr), tg)

TickWait_Done ==
    /\ r.fsm = "DAP_Wait_Done"
    /\ \E hv \in HostValidChoices, sr \in SinkReadyChoices, tg \in BOOLEAN :
          Step(RESP_Wait_Done(Defaults), Inp(hv, sr), tg)

TickWait_Connect_Done ==
    /\ r.fsm = "DAP_Wait_Connect_Done"
    /\ \E hv \in HostValidChoices, sr \in SinkReadyChoices, tg \in BOOLEAN :
          Step(RESP_Wait_Connect_Done(Defaults), Inp(hv, sr), tg)

Next ==
    \/ TickIDLE
    \/ TickRxParams
    \/ TickRESPOND
    \/ TickV1PACKETFILL
    \/ TickProtocolError
    \/ TickUnsupported
    \/ TickSWJ_Pins_PROCESS
    \/ TickSWJ_Sequence_PROCESS
    \/ TickJTAG_Sequence_PROCESS
    \/ TickTransfer_PROCESS
    \/ TickTransferBlock_PROCESS
    \/ TickUPLOAD_RXED_DATA
    \/ TickJTAG_IDCODE_Process
    \/ TickWait_Done
    \/ TickWait_Connect_Done

-----------------------------------------------------------------------------
(* Scenarios: the packets the host sends, the protocol version, whether    *)
(* the output sink may withhold ready, and the transactor's results.       *)

Res(a, p, ag, pm, ig, d, po) ==
    [ack |-> a, perr |-> p, again |-> ag, postedMode |-> pm, ignoreData |-> ig,
     dread |-> d, pinsout |-> po]

(* Distinct read data per index.                                           *)
DataOf(k) == <<k + 1, 16 + k, 32 + k, 48 + k>>

ResOK(k) == Res(ACK_OK, FALSE, FALSE, FALSE, FALSE, DataOf(k), 0)

ResWAIT == Res(ACK_WAIT, FALSE, FALSE, FALSE, FALSE, Zero32, 0)

ResFAULT == Res(4, FALSE, FALSE, FALSE, FALSE, Zero32, 0)

(* Results with the posted-mode flag, with a parity error, and with an ack *)
(* that is none of OK, WAIT and FAULT.                                     *)
ResPosted(k) == Res(ACK_OK, FALSE, FALSE, TRUE, FALSE, DataOf(k), 0)

ResFaultPosted == Res(4, FALSE, FALSE, TRUE, FALSE, Zero32, 0)

ResParity == Res(ACK_OK, TRUE, FALSE, FALSE, FALSE, DataOf(0), 0)

ResNoAck == Res(7, FALSE, FALSE, FALSE, FALSE, Zero32, 0)

(* A pin-write result whose TDO (bit 3 of pinsout) is b.                   *)
ResPins(b) == Res(ACK_OK, FALSE, FALSE, FALSE, FALSE, Zero32, 8 * b)

ScriptOK == [k \in 1..MaxBlock |-> ResOK(k - 1)]

Scn(p, v2, stall, s) == [pkts |-> p, isV2 |-> v2, sinkStall |-> stall, script |-> s]

Lo(n) == n % 256

Hi(n) == n \div 256

PktTransferConfigure(w, m) == <<DAP_TransferConfigure, 0, Lo(w), Hi(w), Lo(m), Hi(m)>>

(* One full-length packet per command of the dispatcher, and the parameter *)
(* values its handler distinguishes.                                       *)
InfoIds == {0, 1, 4, 9, 10, 240, 241, 253, 254, 255}

CommandPkts ==
    {<<DAP_Info, id>> : id \in InfoIds}
    \cup {<<DAP_HostStatus, ty, st>> : ty \in {0, 1, 2}, st \in {0, 1}}
    \cup {<<DAP_Connect, port>> : port \in {0, 1, 2, 3}}
    \cup {<<DAP_Disconnect>>, <<DAP_ResetTarget>>,
          <<DAP_WriteABORT, 0, 1, 2, 3, 4>>,
          <<DAP_Delay, 5, 0>>,
          <<DAP_SWJ_Pins, 1, 3, 10, 0, 0, 0>>,
          <<DAP_SWJ_Clock, 64, 66, 15, 0>>,
          <<DAP_SWJ_Sequence, 3, 5>>,
          <<DAP_SWJ_Sequence, 9, 165, 1>>,
          <<DAP_SWD_Configure, 0>>,
          <<DAP_JTAG_Configure, 1, 4>>,
          <<DAP_JTAG_IDCODE, 0>>,
          PktTransferConfigure(1, 1)}

OtherPkts ==
    {<<DAP_SWO_Transport, 0>>, <<DAP_SWO_Status>>, <<DAP_SWO_Baudrate, 1, 2, 3, 4>>,
     <<DAP_TransferAbort>>,
     <<DAP_SWD_Sequence, 1, 8, 0>>, <<DAP_ExecuteCommands, 1, 3>>, <<DAP_QueueCommands, 1, 3>>,
     <<32>>, <<DAP_Info>>, <<DAP_SWJ_Clock, 1, 2>>}

(* JTAG_Sequence packets: <count> then per sequence <info> <TDI bytes>;    *)
(* info bit 7 asks for capture, bit 6 is TMS, bits 0-5 the cycle count.    *)
JtagPkts ==
    {<<DAP_JTAG_Sequence, 0>>,
     <<DAP_JTAG_Sequence, 1, 3, 5>>,
     <<DAP_JTAG_Sequence, 1, 128 + 3, 5>>,
     <<DAP_JTAG_Sequence, 1, 128 + 64 + 8, 90>>,
     <<DAP_JTAG_Sequence, 1, 128 + 10, 90, 1>>,
     <<DAP_JTAG_Sequence, 2, 128 + 2, 1, 128 + 9, 255, 0>>,
     <<DAP_JTAG_Sequence, 2, 128 + 5, 1, 2, 3>>,
     <<DAP_JTAG_Sequence, 1, 64, 1, 2, 4, 8, 16, 32, 64, 129>>}

(* TDO patterns for the pin writes of a JTAG sequence.                     *)
JtagScripts ==
    {<<ResPins(1)>>, <<ResPins(0), ResPins(1), ResPins(0), ResPins(0)>>,
     <<ResPins(0), ResPins(1), ResPins(1), ResPins(1), ResPins(0), ResPins(0)>>}

(* Transfer request bytes: bit0 APnDP, bit1 RnW, bits 2-3 address,         *)
(* bit4 value match, bit5 match mask.                                      *)
Req(apndp, rnw, a, match, maskw) == apndp + 2 * rnw + 4 * a + 16 * match + 32 * maskw

ReqReadDP == Req(0, 1, 0, 0, 0)
ReqReadAP == Req(1, 1, 0, 0, 0)
ReqWriteDP == Req(0, 0, 0, 0, 0)
ReqMatchRead == Req(0, 1, 0, 1, 0)
ReqMaskWrite == Req(0, 0, 0, 0, 1)

TransferPkts ==
    {<<DAP_Transfer, 0, 0>>,
     <<DAP_Transfer, 0, 1, ReqReadDP>>,
     <<DAP_Transfer, 0, 2, ReqReadAP, ReqReadDP>>,
     <<DAP_Transfer, 0, 2, ReqWriteDP, 1, 2, 3, 4, ReqReadDP>>,
     <<DAP_Transfer, 0, 1, ReqMatchRead, 1, 0, 0, 0>>,
     <<DAP_Transfer, 0, 1, ReqMatchRead, 0, 0, 0, 0>>,
     <<DAP_Transfer, 0, 2, ReqMatchRead, 0, 0, 0, 0, ReqReadDP>>,
     <<DAP_Transfer, 0, 2, ReqMaskWrite, 255, 0, 0, 0, ReqReadDP>>,
     <<DAP_Transfer, 0, 2, ReqMaskWrite, 1, 2, 3, 4, ReqMatchRead, 1, 0, 0, 0>>}

BlockPkts ==
    {<<DAP_TransferBlock, 0, 0, 0, ReqReadDP>>,
     <<DAP_TransferBlock, 0, 2, 0, ReqWriteDP, 1, 2, 3, 4, 5, 6, 7, 8>>}
    \cup {<<DAP_TransferBlock, 0, n, 0, req>> : n \in 1..MaxBlock, req \in {ReqReadDP, ReqReadAP}}

(* Sessions that set the host status flags or connect, then disconnect.    *)
PktHostStatus(ty, st) == <<DAP_HostStatus, ty, st>>

DisconnectRuns ==
    {<<PktHostStatus(ty, 1), <<DAP_Disconnect>>>> : ty \in {0, 1}}
    \cup {<<<<DAP_Connect, port>>, <<DAP_Disconnect>>>> : port \in {1, 2}}
    \cup {<<PktHostStatus(0, 1), PktHostStatus(1, 1), <<DAP_Disconnect>>>>,
          <<PktHostStatus(1, 1), <<DAP_Connect, 1>>, PktHostStatus(0, 1), <<DAP_Disconnect>>>>}

(* One full-length packet per command with a fixed parameter count of at   *)
(* least one byte, and every packet that ends before that length.  They    *)
(* are sent after packets that set connected, running and the retry        *)
(* counts.                                                                 *)
FixedPkts ==
    {<<DAP_Info, 240>>, <<DAP_Connect, 1>>, <<DAP_SWD_Configure, 0>>, <<DAP_JTAG_IDCODE, 0>>,
     PktHostStatus(0, 0), PktHostStatus(1, 0), <<DAP_Delay, 5, 0>>, <<DAP_JTAG_Configure, 1, 4>>,
     <<DAP_SWJ_Clock, 64, 66, 15, 0>>, <<DAP_WriteABORT, 0, 1, 2, 3, 4>>,
     PktTransferConfigure(2, 1), <<DAP_SWJ_Pins, 1, 3, 10, 0, 0, 0>>,
     <<DAP_SWO_Transport, 1>>, <<DAP_SWO_Mode, 1>>, <<DAP_SWO_Control, 1>>,
     <<DAP_SWO_ExtendedStatus, 1>>, <<DAP_SWO_Data, 4, 0>>, <<DAP_SWO_Baudrate, 1, 2, 3, 4>>}

Truncations(p) == {SubSeq(p, 1, n) : n \in 1..(Len(p) - 1)}

ForeshortenedPkts == UNION {Truncations(p) : p \in FixedPkts}

Preamble == <<PktHostStatus(0, 1), PktHostStatus(1, 1), PktTransferConfigure(1, 2)>>

(* Packets of the variable-length commands that end before the data their *)
(* counts declare, each followed by a packet of its own.                   *)
ShortDataPkts ==
    {<<DAP_Transfer, 0, 2, ReqReadDP>>,
     <<DAP_Transfer, 0, 1, ReqWriteDP, 1, 2>>,
     <<DAP_TransferBlock, 0, 2, 0, ReqWriteDP, 1, 2, 3, 4>>,
     <<DAP_JTAG_Sequence, 2, 3, 5>>,
     <<DAP_JTAG_Sequence, 1, 10, 90>>,
     <<DAP_SWJ_Sequence, 9, 165>>}

ShortDataRuns == {<<p, f>> : p \in ShortDataPkts, f \in {<<DAP_Info, 4>>, PktHostStatus(0, 1)}}

(* Packets whose first byte is no command of the dispatcher, sent twice.   *)
UnknownPkts == {<<32>>, <<11, 1, 2>>, <<128, 0>>, <<DAP_Invalid>>}

UnknownRuns == {<<p, p>> : p \in UnknownPkts}

(* The SWO commands at their declared lengths, and packets of the two      *)
(* command-list commands.                                                  *)
SwoPkts ==
    {<<DAP_SWO_Transport, 1>>, <<DAP_SWO_Mode, 1>>, <<DAP_SWO_Baudrate, 0, 194, 1, 0>>,
     <<DAP_SWO_Control, 1>>, <<DAP_SWO_Status>>, <<DAP_SWO_ExtendedStatus, 7>>,
     <<DAP_SWO_Data, 4, 0>>}

CommandListPkts ==
    {<<id>> \o rest : id \in {DAP_ExecuteCommands, DAP_QueueCommands},
                      rest \in {<<>>, <<0>>, <<1, DAP_Disconnect>>}}

(* Batches of plain transfers, and transactors that fail one of them or    *)
(* report posted mode.                                                     *)
BatchPkts ==
    {<<DAP_Transfer, 0, 1, ReqReadDP>>,
     <<DAP_Transfer, 0, 2, ReqReadAP, ReqReadDP>>,
     <<DAP_Transfer, 0, 3, ReqReadAP, ReqReadAP, ReqReadDP>>,
     <<DAP_Transfer, 0, 2, ReqWriteDP, 1, 2, 3, 4, ReqReadDP>>,
     <<DAP_TransferBlock, 0, 2, 0, ReqWriteDP, 1, 2, 3, 4, 5, 6, 7, 8>>}
    \cup {<<DAP_TransferBlock, 0, n, 0, ReqReadAP>> : n \in 1..MaxBlock}

FaultScripts ==
    {<<ResFAULT>>, <<ResParity, ResOK(1)>>, <<ResNoAck, ResOK(1)>>,
     <<ResOK(0), ResFAULT, ResOK(2)>>,
     <<ResFaultPosted, ResOK(1), ResOK(2), ResOK(0)>>}

(* A transactor that reports posted mode on the last of n transfers (or on *)
(* all of them) and drops it when the flush read completes.                *)
PostedLast(n) == [i \in 1..(n + 1) |-> IF i = n THEN ResPosted(i - 1) ELSE ResOK(i - 1)]

PostedAll(n) == [i \in 1..(n + 1) |-> IF i <= n THEN ResPosted(i - 1) ELSE ResOK(i - 1)]

CountOf(p) == IF p[1] = DAP_Transfer THEN p[3] ELSE p[3] + 256 * p[4]

PostedRuns ==
    UNION {{Scn(<<p>>, TRUE, st, s) : st \in BOOLEAN,
                                     s \in {PostedLast(CountOf(p)), PostedAll(CountOf(p))}} :
           p \in BatchPkts}

(* A command that leaves busy low on its way to the response, followed by  *)
(* another command.                                                        *)
FollowedRuns ==
    {<<p, f>> : p \in {<<DAP_Transfer, 0, 0>>, <<DAP_Info>>, <<DAP_HostStatus>>},
                f \in {<<DAP_Info, 255>>, <<DAP_Connect, 1>>}}

(* SWJ_Sequence of 8, 16 and 256 (count byte 0) bits.                      *)
SwjBytes(n) == [i \in 1..n |-> (37 * i + 128) % 256]

SwjPkts ==
    {<<DAP_SWJ_Sequence, 8, 178>>, <<DAP_SWJ_Sequence, 16, 77, 130>>,
     <<DAP_SWJ_Sequence, 0>> \o SwjBytes(32)}

(* A command, a second command that fills the response buffer, and the     *)
(* first command again.                                                    *)
RepeatRuns ==
    {<<q, p, q>> : q \in {<<DAP_Info, 254>>, <<DAP_Info, 255>>, <<DAP_Info, 240>>,
                          <<DAP_Connect, 1>>},
                  p \in {<<DAP_Info, 4>>, <<DAP_Info, 241>>}}

TransferScripts == {ScriptOK, <<ResWAIT>>, <<ResOK(0), ResWAIT>>, <<ResFAULT>>}

(* Packets that carry bytes beyond the length their command declares.      *)
OverlongPkts == {<<DAP_JTAG_IDCODE, 0, 9>>, <<DAP_Info, 240, 1, 2>>, <<DAP_Connect, 1, 7>>}

Scenarios ==
    {Scn(<<p>>, v2, st, ScriptOK) : p \in CommandPkts \cup OtherPkts \cup TransferPkts \cup BlockPkts,
                                    v2 \in BOOLEAN, st \in BOOLEAN}
    \cup {Scn(<<p>>, v2, st, s) : p \in JtagPkts, v2 \in BOOLEAN, st \in BOOLEAN, s \in JtagScripts}
    \cup {Scn(<<PktTransferConfigure(w, m), p>>, v2, FALSE, s) :
             w \in 0..MaxRetry, m \in 0..MaxRetry, p \in TransferPkts \cup BlockPkts,
             v2 \in {TRUE}, s \in TransferScripts}
    \cup {Scn(ps, v2, st, ScriptOK) : ps \in DisconnectRuns, v2 \in BOOLEAN, st \in BOOLEAN}
    \cup {Scn(<<p>>, v2, st, ScriptOK) : p \in ForeshortenedPkts, v2 \in BOOLEAN, st \in BOOLEAN}
    \cup {Scn(ps, v2, st, ScriptOK) : ps \in ShortDataRuns, v2 \in BOOLEAN, st \in BOOLEAN}
    \cup {Scn(<<p>>, TRUE, st, s) : p \in BatchPkts, st \in BOOLEAN, s \in FaultScripts}
    \cup PostedRuns
    \cup {Scn(ps, v2, st, ScriptOK) : ps \in RepeatRuns, v2 \in BOOLEAN, st \in BOOLEAN}
    \cup {Scn(<<p>>, TRUE, FALSE, ScriptOK) : p \in SwjPkts}
    \cup {Scn(<<p>>, v2, st, ScriptOK) : p \in OverlongPkts, v2 \in BOOLEAN, st \in BOOLEAN}
    \cup {Scn(ps, v2, st, ScriptOK) : ps \in FollowedRuns, v2 \in BOOLEAN, st \in BOOLEAN}
    \cup {Scn(<<p>>, v2, st, ScriptOK) : p \in SwoPkts \cup CommandListPkts,
                                         v2 \in BOOLEAN, st \in BOOLEAN}
    \cup {Scn(ps, v2, st, ScriptOK) : ps \in UnknownRuns, v2 \in BOOLEAN, st \in BOOLEAN}
    \cup {Scn(Preamble \o ps, TRUE, st, ScriptOK) : ps \in UnknownRuns, st \in BOOLEAN}
    \cup {Scn(Preamble \o <<p>>, TRUE, st, ScriptOK) : p \in ForeshortenedPkts, st \in BOOLEAN}

-----------------------------------------------------------------------------
(* The state after reset                                                   *)

InitRegs ==
    [fsm |-> "IDLE", running |-> FALSE, connected |-> FALSE,
     rxBlock |-> <<0, 0, 0, 0, 0, 0, 0>>, rxLen |-> 0, rxedLen |-> 0,
     txBlock |-> <<0, 0, 0, 0, 0, 0, 0, 0, 0, 0, 0, 0, 0, 0>>, txLen |-> 0, txedLen |-> 0,
     busy |-> FALSE, txb |-> 0, bitcount |-> 0, can |-> FALSE,
     tdiData |-> 0, tdoCount |-> 0, tdiCount |-> 0, seqCount |-> 0, tckCycles |-> 0,
     tdotgt |-> 0, pendingTx |-> 0, tdoBuild |-> 0,
     dapIndex |-> 0, transferCount |-> 0, mask |-> Zero32, retries |-> 0,
     matchretries |-> 0, tfrReq |-> 0, tfrData |-> Zero32,
     waitRetry |-> 0, matchRetry |-> 0,
     valid |-> FALSE, payload |-> 0, last |-> FALSE,
     command |-> 0, apndp |-> 0, rnw |-> 0, addr32 |-> 0, dwrite |-> Zero32,
     pinsin |-> 0, countdown |-> Zero32, go |-> FALSE,
     adr |-> 0, mem |-> <<>>, dat_r |-> Zero32, done_cdc |-> 0]

InitDbg ==
    [dstate |-> "idle", done |-> TRUE, n |-> 0, ack |-> 0, perr |-> FALSE, again |-> FALSE,
     postedMode |-> FALSE, ignoreData |-> FALSE, dread |-> Zero32, pinsout |-> 0]

InitObs(np) ==
    [cur |-> 0,
     out |-> [k \in 1..(np + 1) |-> <<>>],
     emit |-> [k \in 1..(np + 1) |-> <<>>], held |-> FALSE,
     snap |-> KeptRegs(InitRegs),
     req |-> "none", riseOk |-> TRUE,
     first |-> [k \in 1..(np + 1) |-> -1],
     go |-> [k \in 1..(np + 1) |-> 0],
     txns |-> [k \in 1..(np + 1) |-> <<>>],
     pins |-> [k \in 1..(np + 1) |-> <<>>]]

InitWith(s) ==
    /\ cfg = s
    /\ r = InitRegs
    /\ t = InitDbg
    /\ host = [pi |-> 1, bi |-> 1]
    /\ obs = InitObs(Len(s.pkts))

Init == \E s \in Scenarios : InitWith(s)

Spec == Init /\ [][Next]_vars

(* The handler the FSM runs in its present state, as one operator.         *)
FsmStep(in) ==
    CASE r.fsm = "IDLE" -> IDLE_State(Defaults, in)
      [] r.fsm = "RxParams" -> RxParams_State(Defaults, in)
      [] r.fsm = "RESPOND" -> RESPOND_State(Defaults, in)
      [] r.fsm = "V1PACKETFILL" -> V1PACKETFILL_State(Defaults, in)
      [] r.fsm = "DAP_SWJ_Pins_PROCESS" -> RESP_SWJ_Pins_Process(Defaults)
      [] r.fsm = "DAP_SWJ_Sequence_PROCESS" -> RESP_SWJ_Sequence_Process(Defaults, in)
      [] r.fsm = "DAP_JTAG_Sequence_PROCESS" -> RESP_JTAG_Sequence_PROCESS(Defaults, in)
      [] r.fsm = "DAP_Transfer_PROCESS" -> RESP_Transfer_Process(Defaults, in)
      [] r.fsm = "DAP_TransferBlock_PROCESS" -> RESP_TransferBlock_Process(Defaults, in)
      [] r.fsm = "UPLOAD_RXED_DATA" -> RESP_Transfer_Complete(Defaults, in)
      [] r.fsm = "JTAG_IDCODE_Process" -> RESP_JTAG_IDCODE_Process(Defaults)
      [] r.fsm = "DAP_Wait_Done" -> RESP_Wait_Done(Defaults)
      [] r.fsm = "DAP_Wait_Connect_Done" -> RESP_Wait_Connect_Done(Defaults)
      [] OTHER -> RESP_Invalid(Defaults)

(* A cycle in which the environment cooperates: the host offers its next   *)
(* byte if it has one, the sink is ready and the transactor moves.  The    *)
(* fair specification lets the environment dither for any finite time but  *)
(* not withhold such a cycle for ever: a host that supplies its bytes, a   *)
(* sink that is eventually ready, a transactor that eventually accepts and *)
(* completes.                                                              *)
Advance == Step(FsmStep(Inp(HostHas, TRUE)), Inp(HostHas, TRUE), TRUE)

LiveSpec == Init /\ [][Next]_vars /\ WF_vars(Advance)

-----------------------------------------------------------------------------
(* Reading a run                                                           *)

NPkts == Len(cfg.pkts)

Pkt(k) == cfg.pkts[k]

(* What the sink accepted for packet k: <<byte, end marker>> pairs.        *)
Out(k) == obs.out[k + 1]

OutBytes(k) == [i \in 1..Len(Out(k)) |-> Out(k)[i][1]]

(* What the core presented for packet k, accepted or not.                  *)
Emit(k) == obs.emit[k + 1]

EmitBytes(k) == [i \in 1..Len(Emit(k)) |-> Emit(k)[i][1]]

(* The same bytes with the end marker on the last one only.                *)
Framed(bs) == [i \in 1..Len(bs) |-> <<bs[i], IF i = Len(bs) THEN 1 ELSE 0>>]

IsPrefix(a, b) == Len(a) <= Len(b) /\ \A i \in 1..Len(a) : a[i] = b[i]

(* Packet k was taken by IDLE and the FSM is back in IDLE.                 *)
Answered(k) == obs.cur = k /\ r.fsm = "IDLE"

(* ... and nothing more of its response is on the output.                  *)
ResponseOver(k) == Answered(k) /\ ~r.valid

(* The length the protocol declares for a packet, from its own bytes       *)
(* (-1 when the packet ends before the counts it holds can be read).       *)
CeilDiv8(n) == (n + 7) \div 8

NeedsData(req) == Bit(req, 1) = 0 \/ Bit(req, 4) = 1 \/ Bit(req, 5) = 1

TransferLen(p) ==
    LET RECURSIVE walk(_, _)
        walk(i, n) == IF n = 0 THEN i - 1
                      ELSE IF i > Len(p) THEN -1
                      ELSE walk(i + 1 + (IF NeedsData(p[i]) THEN 4 ELSE 0), n - 1)
    IN IF Len(p) < 3 THEN -1 ELSE walk(4, p[3])

JtagCycles(info) == IF info % 64 # 0 THEN info % 64 ELSE 64

JtagLen(p) ==
    LET RECURSIVE walk(_, _)
        walk(i, n) == IF n = 0 THEN i - 1
                      ELSE IF i > Len(p) THEN -1
                      ELSE walk(i + 1 + CeilDiv8(JtagCycles(p[i])), n - 1)
    IN IF Len(p) < 2 THEN -1 ELSE walk(3, p[2])

DeclaredLen(p) ==
    LET id == p[1]
    IN CASE id \in {DAP_Disconnect, DAP_ResetTarget} -> 1
         [] id \in {DAP_Info, DAP_Connect, DAP_SWD_Configure, DAP_JTAG_IDCODE} -> 2
         [] id \in {DAP_HostStatus, DAP_Delay, DAP_JTAG_Configure} -> 3
         [] id = DAP_SWJ_Clock -> 5
         [] id \in {DAP_WriteABORT, DAP_TransferConfigure} -> 6
         [] id = DAP_SWJ_Pins -> 7
         [] id = DAP_SWJ_Sequence ->
              IF Len(p) < 2 THEN -1 ELSE 2 + CeilDiv8(IF p[2] # 0 THEN p[2] ELSE 256)
         [] id = DAP_Transfer -> TransferLen(p)
         [] id = DAP_TransferBlock ->
              IF Len(p) < 5 THEN -1
              ELSE 5 + (IF Bit(p[5], 1) = 0 THEN 4 * (p[3] + 256 * p[4]) ELSE 0)
         [] id = DAP_JTAG_Sequence -> JtagLen(p)
         [] OTHER -> -1

ImplementedIds ==
    {DAP_Info, DAP_HostStatus, DAP_Connect, DAP_Disconnect, DAP_TransferConfigure,
     DAP_Transfer, DAP_TransferBlock, DAP_WriteABORT, DAP_Delay, DAP_ResetTarget,
     DAP_SWJ_Pins, DAP_SWJ_Clock, DAP_SWJ_Sequence, DAP_SWD_Configure, DAP_JTAG_Sequence,
     DAP_JTAG_Configure, DAP_JTAG_IDCODE}

(* A full-length packet of an implemented command.                         *)
FullPacket(p) == p[1] \in ImplementedIds /\ Len(p) = DeclaredLen(p)

-----------------------------------------------------------------------------
(* C1 as stated: for every full-length packet of an implemented command,   *)
(* whatever its parameter bytes, the first byte made valid on the output   *)
(* for that packet is the packet's command id.                             *)
C1_FirstByteIsId ==
    \A k \in 1..NPkts :
        FullPacket(Pkt(k)) =>
            /\ obs.first[k + 1] \in {-1, Pkt(k)[1]}
            /\ Answered(k) => obs.first[k + 1] = Pkt(k)[1]

(* The parameter values the handlers answer with the invalid response.     *)
RefusedParams(p) ==
    \/ p[1] = DAP_Info /\ p[2] \notin {1, 2, 3, 4, 5, 6, 7, 8, 9, 240, 241, 253, 254, 255}
    \/ p[1] = DAP_HostStatus /\ p[2] \notin {0, 1}
    \/ p[1] = DAP_Connect /\ p[2] \notin {0, 1, 2}

(* C1 amended: the first byte made valid for a full-length packet of an    *)
(* implemented command is the command id, except that Info with an         *)
(* unsupported request id, HostStatus with a type other than 0 or 1 and     *)
(* Connect with a port other than 0, 1 or 2 are answered with 0xFF first.  *)
C1_FirstByteIsIdUnlessRefused ==
    \A k \in 1..NPkts :
        FullPacket(Pkt(k)) =>
            LET want == IF RefusedParams(Pkt(k)) THEN DAP_Invalid ELSE Pkt(k)[1]
            IN /\ obs.first[k + 1] \in {-1, want}
               /\ Answered(k) => obs.first[k + 1] = want

C1_Witness ==
    \E k \in 1..NPkts :
        /\ FullPacket(Pkt(k)) /\ Answered(k)
        /\ Pkt(k)[1] = DAP_JTAG_Sequence /\ obs.first[k + 1] = DAP_JTAG_Sequence

-----------------------------------------------------------------------------
(* C2: a Transfer packet with TransferCount 0 is answered, under V2, with  *)
(* exactly the three bytes 05 00 01, the end marker on the third, and go   *)
(* is never raised while the packet is handled.                            *)
IsTransferZero(p) == Len(p) = 3 /\ p[1] = DAP_Transfer /\ p[3] = 0

C2_TransferCountZero ==
    \A k \in 1..NPkts :
        IsTransferZero(Pkt(k)) /\ cfg.isV2 =>
            /\ obs.go[k + 1] = 0
            /\ IsPrefix(Out(k), Framed(<<DAP_Transfer, 0, 1>>))
            /\ Answered(k) => Out(k) = Framed(<<DAP_Transfer, 0, 1>>)

C2_Witness ==
    \E k \in 1..NPkts :
        IsTransferZero(Pkt(k)) /\ cfg.isV2 /\ Answered(k) /\ Len(Out(k)) = 3

-----------------------------------------------------------------------------
(* C10: Info 0xFF answers the command id 0x00, the length byte 2 and the   *)
(* 16-bit maximum packet size, 511 under V2 and 64 otherwise.              *)
IsInfoPacketSize(p) == Len(p) = 2 /\ p[1] = DAP_Info /\ p[2] = 255

C10_MaxPacketSize ==
    \A k \in 1..NPkts :
        IsInfoPacketSize(Pkt(k)) /\ Answered(k) =>
            /\ Len(Out(k)) >= 4
            /\ SubSeq(OutBytes(k), 1, 2) = <<DAP_Info, 2>>
            /\ OutBytes(k)[3] + 256 * OutBytes(k)[4] = (IF cfg.isV2 THEN 511 ELSE 64)

C10_Witness ==
    \E k \in 1..NPkts :
        IsInfoPacketSize(Pkt(k)) /\ Answered(k) /\ cfg.isV2 /\ OutBytes(k)[3] = 255

-----------------------------------------------------------------------------
(* C3: a TransferBlock of N >= 1 reads, against a transactor that always   *)
(* acks OK (no fault, repeat or posted mode) with distinct data per index, *)
(* is answered under V2 with exactly 4 + 4N bytes: the id, the 16-bit      *)
(* count N, the status OK, then the N words in issue order,                *)
(* least-significant byte first, the end marker on the last byte and on no *)
(* other.  The response is what the core presents, whatever the sink takes *)
(* of it; a sink that is always ready receives exactly that.               *)
IsBlockRead(p) ==
    /\ Len(p) = 5 /\ p[1] = DAP_TransferBlock
    /\ Bit(p[5], 1) = 1 /\ Bit(p[5], 4) = 0 /\ Bit(p[5], 5) = 0
    /\ p[3] + 256 * p[4] >= 1

BlockCount(p) == p[3] + 256 * p[4]

WordsOf(n) ==
    LET RECURSIVE f(_)
        f(i) == IF i = n THEN <<>> ELSE ScriptAt(i % Len(cfg.script)).dread \o f(i + 1)
    IN f(0)

AlwaysOK == \A i \in 1..Len(cfg.script) :
               LET e == cfg.script[i]
               IN e.ack = ACK_OK /\ ~e.perr /\ ~e.again /\ ~e.postedMode /\ ~e.ignoreData

C3_Expected(p) == Framed(<<DAP_TransferBlock, p[3], p[4], ACK_OK>> \o WordsOf(BlockCount(p)))

C3_BlockReadResponse ==
    \A k \in 1..NPkts :
        IsBlockRead(Pkt(k)) /\ AlwaysOK /\ cfg.isV2 =>
            /\ IsPrefix(Emit(k), C3_Expected(Pkt(k)))
            /\ ResponseOver(k) => Emit(k) = C3_Expected(Pkt(k))
            /\ ~cfg.sinkStall => IsPrefix(Out(k), Emit(k)) /\ Len(Emit(k)) <= Len(Out(k)) + 1

C3_Witness ==
    \E k \in 1..NPkts :
        /\ IsBlockRead(Pkt(k)) /\ AlwaysOK /\ cfg.isV2 /\ cfg.sinkStall
        /\ BlockCount(Pkt(k)) = 3 /\ ResponseOver(k) /\ Len(Emit(k)) = 16
        /\ Len(Out(k)) < 16

-----------------------------------------------------------------------------
(* C4 as stated: under V1, for every response shorter than 64 bytes and    *)
(* every pattern of output ready, exactly 64 bytes have been accepted by   *)
(* the sink when the FSM is back in IDLE.                                  *)
C4_PaddedTo64 ==
    \A k \in 1..NPkts :
        FullPacket(Pkt(k)) /\ ~cfg.isV2 /\ Answered(k) =>
            Len(Out(k)) = DAP_V1_MAX_PACKET_SIZE

(* C4, counted as late as can be: once the FSM is back in IDLE and its     *)
(* output has gone quiet, the sink has accepted exactly 64 bytes.          *)
C4_PaddedTo64Late ==
    \A k \in 1..NPkts :
        FullPacket(Pkt(k)) /\ ~cfg.isV2 /\ ResponseOver(k) =>
            Len(Out(k)) = DAP_V1_MAX_PACKET_SIZE

-----------------------------------------------------------------------------
(* C5: in a Transfer batch whose every attempt is answered WAIT, the       *)
(* first request is issued waitRetry + 1 times in all, nothing more is     *)
(* issued for the batch, and the status byte of the response carries the   *)
(* WAIT ack.                                                               *)
AlwaysWAIT == \A i \in 1..Len(cfg.script) : cfg.script[i].ack = ACK_WAIT /\ ~cfg.script[i].perr

IsTransferPlain(p) ==
    /\ FullPacket(p) /\ p[1] = DAP_Transfer /\ p[3] >= 1
    /\ Bit(p[4], 4) = 0 /\ Bit(p[4], 5) = 0

C5_WaitRetried ==
    \A k \in 1..NPkts :
        IsTransferPlain(Pkt(k)) /\ AlwaysWAIT =>
            /\ obs.go[k + 1] <= r.waitRetry + 1
            /\ Len(obs.txns[k + 1]) <= r.waitRetry + 1
            /\ Answered(k) =>
                 /\ obs.go[k + 1] = r.waitRetry + 1
                 /\ Len(obs.txns[k + 1]) = r.waitRetry + 1
                 /\ \A i \in 1..Len(obs.txns[k + 1]) :
                       obs.txns[k + 1][i] = obs.txns[k + 1][1]
                 /\ ~cfg.sinkStall =>
                       /\ Len(Out(k)) >= 3
                       /\ OutBytes(k)[3] = ACK_WAIT

C5_Witness ==
    \E k \in 1..NPkts :
        /\ IsTransferPlain(Pkt(k)) /\ AlwaysWAIT /\ Answered(k)
        /\ r.waitRetry = 2 /\ obs.go[k + 1] = 3

-----------------------------------------------------------------------------
(* Transfer batches that open with a value-match read.                     *)
IsMatchFirst(p) ==
    /\ FullPacket(p) /\ p[1] = DAP_Transfer /\ p[3] >= 1
    /\ Bit(p[4], 4) = 1 /\ Bit(p[4], 5) = 0 /\ Bit(p[4], 1) = 1

MatchValue(p) == <<p[5], p[6], p[7], p[8]>>

NeverMatches(p) ==
    \A i \in 1..Len(cfg.script) : And32(cfg.script[i].dread, r.mask) # MatchValue(p)

AlwaysMatches(p) ==
    \A i \in 1..Len(cfg.script) : And32(cfg.script[i].dread, r.mask) = MatchValue(p)

(* The value-mismatch flag of the status byte being built (bit 4 in the    *)
(* protocol, bit 5 as the handler writes it: either is taken).             *)
MismatchFlag == (GetB(r.txBlock, 2) \div 16) % 4 # 0

(* C6 as stated: a value-match read that never matches is issued exactly   *)
(* matchRetry times in all before the mismatch bit is set; the bit is not  *)
(* set before that budget is used, and no attempt is made beyond it        *)
(* (stated for a budget of at least one attempt).                          *)
C6_MatchBudget ==
    \A k \in 1..NPkts :
        /\ obs.cur = k /\ IsMatchFirst(Pkt(k)) /\ AlwaysOK /\ NeverMatches(Pkt(k))
        /\ r.fsm = "DAP_Transfer_PROCESS" /\ r.matchRetry >= 1
        => /\ Len(obs.txns[k + 1]) <= r.matchRetry
           /\ MismatchFlag => Len(obs.txns[k + 1]) = r.matchRetry

-----------------------------------------------------------------------------
(* C7 as stated: a value-match read whose result matches is not reissued   *)
(* after the matching attempt.                                             *)
C7_MatchNotReissued ==
    \A k \in 1..NPkts :
        /\ obs.cur = k /\ IsMatchFirst(Pkt(k)) /\ Pkt(k)[3] = 1
        /\ AlwaysOK /\ AlwaysMatches(Pkt(k))
        => Len(obs.txns[k + 1]) <= 1

-----------------------------------------------------------------------------
(* C8 as stated: a request with bit 5 set stores its four data bytes,      *)
(* little-endian, in the match mask, and is not sent to the transactor.    *)
IsMaskWriteFirst(p) ==
    /\ FullPacket(p) /\ p[1] = DAP_Transfer /\ p[3] >= 1 /\ Bit(p[4], 5) = 1

C8_MaskWrite ==
    \A k \in 1..NPkts :
        obs.cur = k /\ IsMaskWriteFirst(Pkt(k)) /\ AlwaysOK =>
            /\ \A i \in 1..Len(obs.txns[k + 1]) :
                  obs.txns[k + 1][i].dwrite # MatchValue(Pkt(k))
            /\ r.fsm = "UPLOAD_RXED_DATA" => r.mask = MatchValue(Pkt(k))

(* The first half alone: the mask write never reaches the transactor.      *)
C8_MaskWriteNotIssued ==
    r.fsm = "DAP_Transfer_PROCESS" /\ Bit(r.tfrReq, 5) = 1 => ~r.go

-----------------------------------------------------------------------------
(* JTAG_Sequence: what the response must hold, from the packet and the     *)
(* TDO levels the transactor reports.  Pulse j of a command is its pin     *)
(* writes 2j (TCK low) and 2j + 1 (TCK high); TDO is read after the        *)
(* second.                                                                 *)
JtagTdo(j) == Bit(ScriptAt((2 * j + 1) % Len(cfg.script)).pinsout, 3)

(* The bits captured from pulses j .. j + c - 1, packed LSB first.         *)
JtagPack(j, c) ==
    LET bits == [i \in 1..c |-> JtagTdo(j + i - 1)]
    IN [b \in 1..CeilDiv8(c) |-> PackByte(bits, 8 * (b - 1) + 1)]

(* Captured bytes sequence by sequence.                                    *)
JtagCapture(p) ==
    LET RECURSIVE walk(_, _, _)
        walk(i, n, j) ==
            IF n = 0 THEN <<>>
            ELSE LET c == JtagCycles(p[i])
                 IN (IF Bit(p[i], 7) = 1 THEN JtagPack(j, c) ELSE <<>>)
                    \o walk(i + 1 + CeilDiv8(c), n - 1, j + c)
    IN walk(3, p[2], 0)

(* Total number of bits the command captures.                              *)
JtagCapturedBits(p) ==
    LET RECURSIVE walk(_, _)
        walk(i, n) ==
            IF n = 0 THEN 0
            ELSE LET c == JtagCycles(p[i])
                 IN (IF Bit(p[i], 7) = 1 THEN c ELSE 0) + walk(i + 1 + CeilDiv8(c), n - 1)
    IN walk(3, p[2])

IsJtag(p) == FullPacket(p) /\ p[1] = DAP_JTAG_Sequence

(* C9 as stated: a JTAG_Sequence command capturing L bits in all emits     *)
(* ceil(L/8) captured bytes after the header (id and status).              *)
C9_CapturedBytesOfTotal ==
    \A k \in 1..NPkts :
        IsJtag(Pkt(k)) /\ cfg.isV2 /\ ResponseOver(k) =>
            Len(Emit(k)) = 2 + CeilDiv8(JtagCapturedBits(Pkt(k)))

(* C9 amended: each capturing sequence of n bits emits ceil(n/8) bytes of  *)
(* its own, after the id and the status byte 0, the i-th captured bit of a *)
(* byte in bit i, unused high bits zero; under V2 the end marker is        *)
(* presented with the final byte of the response and with no other.  The   *)
(* response is what the core presents, whatever the sink takes of it.      *)
C9_Expected(p) == <<DAP_JTAG_Sequence, 0>> \o JtagCapture(p)

C9_CapturedPerSequence ==
    \A k \in 1..NPkts :
        IsJtag(Pkt(k)) =>
            IF cfg.isV2
            THEN /\ IsPrefix(Emit(k), Framed(C9_Expected(Pkt(k))))
                 /\ ResponseOver(k) => Emit(k) = Framed(C9_Expected(Pkt(k)))
                 /\ ~cfg.sinkStall /\ ResponseOver(k) => Out(k) = Emit(k)
            ELSE /\ Len(Emit(k)) <= Len(C9_Expected(Pkt(k))) =>
                       IsPrefix(EmitBytes(k), C9_Expected(Pkt(k)))
                 /\ Answered(k) => IsPrefix(C9_Expected(Pkt(k)), EmitBytes(k))

C9_Witness ==
    \E k \in 1..NPkts :
        /\ IsJtag(Pkt(k)) /\ cfg.isV2 /\ ResponseOver(k)
        /\ Pkt(k)[2] = 2 /\ JtagCapturedBits(Pkt(k)) = 11
        /\ Len(Emit(k)) = 5 /\ EmitBytes(k)[3] # 0 /\ EmitBytes(k)[5] # 0

-----------------------------------------------------------------------------
(* C11: after any sequence of commands that ends with a complete           *)
(* Disconnect packet, once the FSM is back in IDLE both connected and      *)
(* running are 0, whatever HostStatus or Connect commands came before.     *)
IsDisconnect(p) == p = <<DAP_Disconnect>>

C11_DisconnectClears ==
    \A k \in 1..NPkts :
        IsDisconnect(Pkt(k)) /\ Answered(k) => ~r.connected /\ ~r.running

(* A Disconnect that found both flags set has been answered.               *)
C11_Witness ==
    \E k \in 2..NPkts :
        /\ IsDisconnect(Pkt(k)) /\ ResponseOver(k)
        /\ obs.snap.connected /\ obs.snap.running
        /\ OutBytes(k) # <<>> /\ OutBytes(k)[1] = DAP_Disconnect

-----------------------------------------------------------------------------
(* The parameter count IDLE declares for a command of fixed length (the    *)
(* whole packet, command byte included; 0 for the other commands).         *)
FixedCount(id) ==
    CASE id \in {DAP_Disconnect, DAP_ResetTarget, DAP_SWO_Status, DAP_TransferAbort} -> 1
      [] id \in {DAP_Info, DAP_Connect, DAP_SWD_Configure, DAP_SWO_Transport, DAP_SWO_Mode,
                 DAP_SWO_Control, DAP_SWO_ExtendedStatus, DAP_JTAG_IDCODE} -> 2
      [] id \in {DAP_HostStatus, DAP_SWO_Data, DAP_Delay, DAP_JTAG_Configure} -> 3
      [] id \in {DAP_SWO_Baudrate, DAP_SWJ_Clock} -> 5
      [] id \in {DAP_WriteABORT, DAP_TransferConfigure} -> 6
      [] id = DAP_SWJ_Pins -> 7
      [] OTHER -> 0

IsForeshortened(p) == Len(p) < FixedCount(p[1])

(* The invalid response: the single byte 0xFF, carrying the end marker     *)
(* under V2 and followed by the zero padding of the frame under V1.        *)
InvalidSoFar(k) ==
    IF cfg.isV2 THEN Out(k) \in {<<>>, <<<<DAP_Invalid, 1>>>>}
    ELSE \A i \in 1..Len(Out(k)) : OutBytes(k)[i] = (IF i = 1 THEN DAP_Invalid ELSE 0)

InvalidAnswer(k) == InvalidSoFar(k) /\ Out(k) # <<>> /\ Len(Out(k)) <= DAP_V1_MAX_PACKET_SIZE

(* C12: a command with a fixed parameter count whose packet ends before    *)
(* the declared length (on the first byte too) is answered with the single *)
(* byte 0xFF and the FSM returns to IDLE; go is never raised, and          *)
(* connected, running, waitRetry, matchRetry and the match mask keep the   *)
(* values they had when the packet started.                                *)
C12_ForeshortenedRefused ==
    \A k \in 1..NPkts :
        IsForeshortened(Pkt(k)) /\ obs.cur = k =>
            /\ InvalidSoFar(k)
            /\ obs.go[k + 1] = 0 /\ ~r.go /\ obs.txns[k + 1] = <<>>
            /\ KeptRegs(r) = obs.snap
            /\ (ResponseOver(k) => InvalidAnswer(k))

(* A foreshortened TransferConfigure, sent when both flags and both retry  *)
(* counts were set, has been answered.                                     *)
C12_Witness ==
    \E k \in 2..NPkts :
        /\ IsForeshortened(Pkt(k)) /\ Pkt(k)[1] = DAP_TransferConfigure /\ Len(Pkt(k)) = 5
        /\ ResponseOver(k) /\ Out(k) = <<<<DAP_Invalid, 1>>>>
        /\ obs.snap.connected /\ obs.snap.running
        /\ obs.snap.waitRetry = 1 /\ obs.snap.matchRetry = 2

-----------------------------------------------------------------------------
(* C13 as stated: a packet of SWJ_Sequence, Transfer, TransferBlock or     *)
(* JTAG_Sequence that ends before the data bytes its counts declare is     *)
(* answered with the invalid response, and while it is served no byte of   *)
(* the packet that follows is taken from the host.                         *)
VariableIds == {DAP_SWJ_Sequence, DAP_Transfer, DAP_TransferBlock, DAP_JTAG_Sequence}

HeaderLen(id) ==
    CASE id \in {DAP_SWJ_Sequence, DAP_JTAG_Sequence} -> 2
      [] id = DAP_Transfer -> 3
      [] id = DAP_TransferBlock -> 5
      [] OTHER -> 0

IsShortOfData(p) ==
    /\ p[1] \in VariableIds /\ Len(p) >= HeaderLen(p[1])
    /\ (DeclaredLen(p) = -1 \/ Len(p) < DeclaredLen(p))

NothingTakenAfter(k) == host.pi <= k + 1 /\ (host.pi = k + 1 => host.bi = 1)

C13_ShortDataRefused ==
    \A k \in 1..NPkts :
        IsShortOfData(Pkt(k)) /\ obs.cur = k =>
            /\ InvalidSoFar(k)
            /\ NothingTakenAfter(k)

-----------------------------------------------------------------------------
(* The command ids IDLE has a case for.                                    *)
DispatcherIds ==
    ImplementedIds \cup
    {DAP_TransferAbort, DAP_SWO_Transport, DAP_SWO_Mode, DAP_SWO_Baudrate, DAP_SWO_Control,
     DAP_SWO_Status, DAP_SWO_Data, DAP_SWO_ExtendedStatus, DAP_SWD_Sequence,
     DAP_ExecuteCommands, DAP_QueueCommands}

IsUnknown(p) == p[1] \notin DispatcherIds

(* The invalid response as the core presents it: 0xFF with the end marker  *)
(* under V2, 0xFF and the zero padding of the 64-byte frame under V1.      *)
InvalidFrame ==
    IF cfg.isV2 THEN <<DAP_Invalid>>
    ELSE [i \in 1..DAP_V1_MAX_PACKET_SIZE |-> IF i = 1 THEN DAP_Invalid ELSE 0]

PresentsInvalid(k) ==
    /\ EmitBytes(k) = InvalidFrame
    /\ cfg.isV2 => Emit(k)[1][2] = 1

(* C14: a packet whose first byte is no command id of the dispatcher is    *)
(* answered with the single byte 0xFF; go is never raised; connected,      *)
(* running, waitRetry, matchRetry and the match mask keep their values;    *)
(* and the same packet sent again gets the same response.                  *)
C14_UnknownRefused ==
    \A k \in 1..NPkts :
        IsUnknown(Pkt(k)) /\ obs.cur = k =>
            /\ IsPrefix(EmitBytes(k), InvalidFrame) /\ InvalidSoFar(k)
            /\ obs.go[k + 1] = 0 /\ ~r.go /\ obs.txns[k + 1] = <<>>
            /\ KeptRegs(r) = obs.snap
            /\ (ResponseOver(k) =>
                   /\ PresentsInvalid(k)
                   /\ \A j \in 1..(k - 1) : Pkt(j) = Pkt(k) => Emit(j) = Emit(k))

(* The second of two equal unknown packets, sent when the flags and retry  *)
(* counts were set, has been answered.                                     *)
C14_Witness ==
    \E k \in 2..NPkts :
        /\ IsUnknown(Pkt(k)) /\ Pkt(k - 1) = Pkt(k) /\ Len(Pkt(k)) = 3
        /\ ResponseOver(k) /\ Out(k) = <<<<DAP_Invalid, 1>>>> /\ Out(k - 1) = Out(k)
        /\ obs.snap.connected /\ obs.snap.running
        /\ obs.snap.waitRetry = 1 /\ obs.snap.matchRetry = 2

-----------------------------------------------------------------------------
(* The response bs as the core presents it: its bytes with the end marker  *)
(* on the last one under V2, its bytes and the zero padding of the 64-byte *)
(* frame under V1.                                                         *)
FrameOf(bs) ==
    IF cfg.isV2 THEN bs
    ELSE [i \in 1..DAP_V1_MAX_PACKET_SIZE |-> IF i <= Len(bs) THEN bs[i] ELSE 0]

Presents(k, bs) ==
    /\ EmitBytes(k) = FrameOf(bs)
    /\ cfg.isV2 => Emit(k) = Framed(bs)

SwoIds ==
    {DAP_SWO_Transport, DAP_SWO_Mode, DAP_SWO_Baudrate, DAP_SWO_Control, DAP_SWO_Status,
     DAP_SWO_ExtendedStatus, DAP_SWO_Data}

IsSwo(p) == p[1] \in SwoIds /\ Len(p) = FixedCount(p[1])

IsCommandList(p) == p[1] \in {DAP_ExecuteCommands, DAP_QueueCommands}

(* C15: every SWO command sent with its declared length is answered with   *)
(* its command id followed by 0xFF; ExecuteCommands and QueueCommands are  *)
(* answered with the invalid response; none of them raises go.             *)
C15_NotImplemented ==
    \A k \in 1..NPkts :
        (IsSwo(Pkt(k)) \/ IsCommandList(Pkt(k))) /\ obs.cur = k =>
            LET answer == IF IsSwo(Pkt(k)) THEN <<Pkt(k)[1], 255>> ELSE <<DAP_Invalid>>
            IN /\ obs.go[k + 1] = 0 /\ ~r.go /\ obs.txns[k + 1] = <<>>
               /\ IsPrefix(EmitBytes(k), FrameOf(answer))
               /\ IsPrefix(Out(k), Emit(k))
               /\ (ResponseOver(k) => Presents(k, answer))

(* SWO_Baudrate has been answered to a sink that stalls, and accepted.     *)
C15_Witness ==
    \E k \in 1..NPkts :
        /\ IsSwo(Pkt(k)) /\ Pkt(k)[1] = DAP_SWO_Baudrate /\ cfg.sinkStall
        /\ ResponseOver(k) /\ Out(k) = <<<<DAP_SWO_Baudrate, 0>>, <<255, 1>>>>

-----------------------------------------------------------------------------
(* C16 as stated: when the host supplies the bytes every command declares, *)
(* the sink is eventually ready and the transactor eventually accepts and  *)
(* completes every request, the FSM, wherever it is, eventually returns to *)
(* IDLE.  (Checked under LiveSpec, which carries the three assumptions.)   *)
HostSuppliesAll == \A k \in 1..NPkts : ~IsShortOfData(Pkt(k))

C16_ReturnsToIdle == (HostSuppliesAll /\ r.fsm # "IDLE") ~> (r.fsm = "IDLE")

-----------------------------------------------------------------------------
(* C17 as stated: at most one transaction is outstanding.  go rises for a  *)
(* new request only when the completion of the request before it has been  *)
(* observed (dbg_done high after having been low), and go is never left    *)
(* high when the FSM is back in IDLE.                                      *)
C17_OneOutstanding == obs.riseOk /\ (r.fsm = "IDLE" => ~r.go)

-----------------------------------------------------------------------------
(* The states that wait on a transaction after go was raised: the three    *)
(* wait states of the FSM and the wait sub-states of the PROCESS states.   *)
WaitsOnTransaction(q) ==
    \/ q.fsm \in {"DAP_Wait_Done", "DAP_Wait_Connect_Done", "JTAG_IDCODE_Process"}
    \/ q.fsm = "DAP_Transfer_PROCESS" /\ q.txb \in {6, 7}
    \/ q.fsm = "DAP_TransferBlock_PROCESS" /\ q.txb \in {5, 6}
    \/ q.fsm = "DAP_SWJ_Sequence_PROCESS" /\ q.txb \in {2, 3}
    \/ q.fsm = "DAP_JTAG_Sequence_PROCESS" /\ q.txb \in {4, 5}

(* C18 as stated: in every state that waits on a transaction, go is        *)
(* cleared in the cycle dbg_done is observed low, and the FSM leaves the   *)
(* wait only in a cycle where go is 0 and dbg_done is 1.                   *)
C18_WaitHandshake ==
    [][WaitsOnTransaction(r) =>
          /\ (r.go /\ ~dbg_done => ~r'.go)
          /\ (~WaitsOnTransaction(r') => ~r.go /\ dbg_done)]_vars

-----------------------------------------------------------------------------
(* The results of the transactions logged for packet k, in order, and      *)
(* what they say about a TransferBlock batch: it was aborted when the last *)
(* result is not OK, and the transfers completed are the OK results.       *)
ResultsOf(k) ==
    [i \in 1..Len(obs.txns[k + 1]) |-> cfg.script[((i - 1) % Len(cfg.script)) + 1]]

IsBlock(p) == p[1] = DAP_TransferBlock /\ FullPacket(p) /\ Get16(p, 2) >= 1

Aborted(k) ==
    /\ ResultsOf(k) # <<>> /\ Len(ResultsOf(k)) < MaxLog
    /\ ResultsOf(k)[Len(ResultsOf(k))].ack # ACK_OK

CompletedOK(k) == Cardinality({i \in 1..Len(ResultsOf(k)) : ResultsOf(k)[i].ack = ACK_OK})

(* C19 as stated: when a TransferBlock batch is aborted at its k-th        *)
(* transfer by WAIT exhaustion or by a fault, the 16-bit count of the      *)
(* response is k - 1, the number of transfers that completed with OK.      *)
C19_AbortCount ==
    \A k \in 1..NPkts :
        IsBlock(Pkt(k)) /\ ResponseOver(k) /\ Aborted(k) =>
            /\ Len(EmitBytes(k)) >= 4
            /\ EmitBytes(k)[2] + 256 * EmitBytes(k)[3] = CompletedOK(k)

-----------------------------------------------------------------------------
(* C20 as stated: against a transactor that answers every attempt with     *)
(* WAIT, TransferBlock issues for its first transfer as many transactions  *)
(* as Transfer does for its first request under the same waitRetry: one    *)
(* initial attempt and waitRetry retries, then it reports WAIT and stops.  *)
C20_SameWaitBudget ==
    \A k \in 1..NPkts :
        (IsBlock(Pkt(k)) \/ IsTransferPlain(Pkt(k))) /\ AlwaysWAIT /\ Answered(k) =>
            /\ Len(obs.txns[k + 1]) = r.waitRetry + 1
            /\ obs.go[k + 1] = r.waitRetry + 1

-----------------------------------------------------------------------------
(* Batches of plain transfers (no value match, no mask write), and what    *)
(* their packets and results say.  RequestEnd(p, n) is the index of the    *)
(* last byte of the n-th request of a Transfer packet (its data included), *)
(* RequestAt(p) the indices of its request bytes.                          *)
RequestEnd(p, n) ==
    LET RECURSIVE walk(_, _)
        walk(i, m) == IF m = 0 THEN i - 1
                      ELSE IF i > Len(p) THEN Len(p)
                      ELSE walk(i + 1 + (IF NeedsData(p[i]) THEN 4 ELSE 0), m - 1)
    IN walk(4, n)

RequestAt(p) == {RequestEnd(p, n) + 1 : n \in 0..(p[3] - 1)}

IsPlainBatch(p) ==
    /\ FullPacket(p)
    /\ \/ p[1] = DAP_TransferBlock /\ Get16(p, 2) >= 1
       \/ /\ p[1] = DAP_Transfer /\ p[3] >= 1
          /\ \A i \in 4..Len(p) : i \in RequestAt(p) => Bit(p[i], 4) = 0 /\ Bit(p[i], 5) = 0

BatchCount(p) == IF p[1] = DAP_Transfer THEN p[3] ELSE Get16(p, 2)

(* The number of bytes of packet p up to the end of its n-th transfer.     *)
BytesThrough(p, n) ==
    IF p[1] = DAP_Transfer THEN RequestEnd(p, n)
    ELSE 5 + (IF Bit(p[5], 1) = 0 THEN 4 * n ELSE 0)

Failing(res) == res.perr \/ res.ack \notin {ACK_OK, ACK_WAIT}

StatusOf(res) == res.ack + 8 * B2N(res.perr)

(* The place of the status byte in the response.                           *)
StatusAt(p) == IF p[1] = DAP_Transfer THEN 3 ELSE 4

(* C21 as stated: when a transfer of a batch with more than one transfer   *)
(* remaining completes with the fault flag or with an ack that is neither  *)
(* OK nor WAIT, no further transaction is issued, no further byte of the   *)
(* packet is taken from the input while the batch is served, and the       *)
(* status byte of the response is the ack and fault flag of that transfer, *)
(* with and without posted mode.                                           *)
C21_FaultStopsBatch ==
    \A k \in 1..NPkts :
        IsPlainBatch(Pkt(k)) /\ BatchCount(Pkt(k)) >= 2 /\ obs.cur = k =>
            \A f \in 1..Len(ResultsOf(k)) :
                f < BatchCount(Pkt(k)) /\ Failing(ResultsOf(k)[f])
                /\ (\A i \in 1..(f - 1) : ResultsOf(k)[i].ack = ACK_OK /\ ~ResultsOf(k)[i].perr) =>
                    /\ Len(ResultsOf(k)) = f
                    /\ (r.fsm # "IDLE" /\ host.pi = k => host.bi - 1 <= BytesThrough(Pkt(k), f))
                    /\ (r.fsm # "IDLE" => host.pi = k \/ Len(Pkt(k)) <= BytesThrough(Pkt(k), f))
                    /\ (ResponseOver(k) =>
                           /\ Len(EmitBytes(k)) >= StatusAt(Pkt(k))
                           /\ EmitBytes(k)[StatusAt(Pkt(k))] = StatusOf(ResultsOf(k)[f]))

-----------------------------------------------------------------------------
(* Runs in which every transfer of the batch ends OK and posted mode is    *)
(* reported on its last transfer (and dropped by the flush read), and runs *)
(* in which it is never reported.                                          *)
PostedAtEnd(p) == cfg.script \in {PostedLast(BatchCount(p)), PostedAll(BatchCount(p))}

NeverPosted == AlwaysOK /\ \A i \in 1..Len(cfg.script) : ~cfg.script[i].postedMode

IsFlushRead(txn) ==
    txn.command = CMD_TRANSACT /\ txn.apndp = 0 /\ txn.rnw = 1 /\ txn.addr32 = 3

(* C22: when the last request of a Transfer or TransferBlock batch         *)
(* completes and the transactor reports posted mode, exactly one more      *)
(* transaction is issued, a read of DP register RDBUFF, before the first   *)
(* byte of the response; without posted mode no extra transaction is       *)
(* issued.                                                                 *)
C22_PostedFlush ==
    \A k \in 1..NPkts :
        IsPlainBatch(Pkt(k)) /\ obs.cur = k =>
            LET n == BatchCount(Pkt(k))
                txns == obs.txns[k + 1]
            IN /\ PostedAtEnd(Pkt(k)) =>
                     /\ Len(txns) <= n + 1 /\ obs.go[k + 1] <= n + 1
                     /\ (Len(txns) = n + 1 =>
                            /\ IsFlushRead(txns[n + 1])
                            /\ \A i \in 1..n : ~IsFlushRead(txns[i]))
                     /\ (Emit(k) # <<>> \/ r.valid \/ Answered(k) => Len(txns) = n + 1)
               /\ NeverPosted =>
                     /\ Len(txns) <= n
                     /\ (Emit(k) # <<>> \/ r.valid \/ Answered(k) => Len(txns) = n)

(* A Transfer of two requests and a TransferBlock of two reads, each with  *)
(* posted mode on the last transfer, have been answered after three        *)
(* transactions.                                                           *)
C22_Witness ==
    \E k \in 1..NPkts :
        /\ IsPlainBatch(Pkt(k)) /\ BatchCount(Pkt(k)) = 2 /\ PostedAtEnd(Pkt(k))
        /\ Pkt(k)[1] = DAP_Transfer
        /\ ResponseOver(k) /\ Len(obs.txns[k + 1]) = 3 /\ IsFlushRead(obs.txns[k + 1][3])

-----------------------------------------------------------------------------
IsBatchCommand(p) == p[1] \in {DAP_Transfer, DAP_TransferBlock}

(* Packet k is a Transfer or TransferBlock whose response has begun: a     *)
(* byte is presented to the sink or was presented earlier.                 *)
Responding(k) ==
    obs.cur = k /\ IsBatchCommand(Pkt(k)) /\ r.fsm # "IDLE" /\ (r.valid \/ Emit(k) # <<>>)

TransactorQuiet == ~r.go /\ t.dstate = "idle"

NoTrafficWhileResponding ==
    \A k \in 1..NPkts : Responding(k) => TransactorQuiet

NoIssueAfterHeader ==
    \A k \in 1..NPkts :
        Responding(k) /\ obs'.cur = k =>
            /\ ~r'.go
            /\ obs'.go[k + 1] = obs.go[k + 1]
            /\ obs'.txns[k + 1] = obs.txns[k + 1]

(* C23: in Transfer and TransferBlock no output byte is valid while a      *)
(* transaction of the batch is still to be issued or outstanding, and go   *)
(* is not asserted from the first header byte until the FSM is in Idle.    *)
C23_NoInterleave == [] NoTrafficWhileResponding /\ [][NoIssueAfterHeader]_vars

(* A Transfer that ran at least one transaction is sending read data and   *)
(* the transactor is at rest.                                              *)
C23_Witness ==
    \E k \in 1..NPkts :
        /\ Responding(k) /\ Pkt(k)[1] = DAP_Transfer
        /\ r.fsm = "UPLOAD_RXED_DATA" /\ r.valid
        /\ Len(obs.txns[k + 1]) >= 2 /\ Len(Emit(k)) > 3
        /\ TransactorQuiet

-----------------------------------------------------------------------------
(* The states in which no input byte is stored: the response states, the   *)
(* waits for the transactor and the refusing states.                       *)
NotStoringStates ==
    {"RESPOND", "V1PACKETFILL", "UPLOAD_RXED_DATA", "DAP_Wait_Done",
     "DAP_Wait_Connect_Done", "JTAG_IDCODE_Process", "DAP_SWJ_Pins_PROCESS",
     "ProtocolError"}

(* C24: busy is 1 in every cycle in which the FSM is not prepared to store *)
(* an input byte (RESPOND, V1PACKETFILL, UPLOAD_RXED_DATA, the transaction *)
(* wait states, ProtocolError), for every command, so that the input       *)
(* stream, whose ready is the negation of busy, hands over no byte there.  *)
C24_BusyWhenNotStoring == r.fsm \in NotStoringStates => r.busy

-----------------------------------------------------------------------------
(* The positions of the accepted bytes of packet k's response that carry   *)
(* the end marker.                                                         *)
MarkedAt(k) == {i \in 1..Len(Out(k)) : Out(k)[i][2] = 1}

(* C25: under V2, for every command and outcome, the end marker is on      *)
(* exactly one accepted byte of the response, and that byte is the last    *)
(* one emitted before the FSM is back in Idle.                             *)
C25_OneEndMarker ==
    cfg.isV2 =>
        \A k \in 1..NPkts :
            /\ MarkedAt(k) \subseteq {Len(Out(k))}
            /\ (ResponseOver(k) /\ Out(k) # <<>> => MarkedAt(k) = {Len(Out(k))})

-----------------------------------------------------------------------------
(* C26: under V1, for every command, the end marker is asserted on the     *)
(* 64th byte of the padded response and on no earlier byte.                *)
C26_MarkerOn64th ==
    ~cfg.isV2 =>
        \A k \in 1..NPkts :
            /\ \A i \in 1..Len(Emit(k)) : i < DAP_V1_MAX_PACKET_SIZE => Emit(k)[i][2] = 0
            /\ (Len(Emit(k)) >= DAP_V1_MAX_PACKET_SIZE =>
                    Emit(k)[DAP_V1_MAX_PACKET_SIZE][2] = 1)

-----------------------------------------------------------------------------
(* The largest parameter length IDLE sets (SWJ_Pins).                      *)
MaxRxLen == 7

(* C27 as stated: in every reachable state, after any packets, the         *)
(* received count rxedLen is at most rxLen, and rxLen is at most 7.        *)
C27_ReceiveLengths == r.rxedLen <= r.rxLen /\ r.rxLen <= MaxRxLen

(* C27 as amended: rxLen is at most 7, and rxedLen is at most rxLen once   *)
(* a command has set rxLen; before that rxLen is 0 and rxedLen is at most  *)
(* 1.                                                                      *)
C27_ReceiveLengthsOnceSet ==
    /\ r.rxLen <= MaxRxLen
    /\ (r.rxLen >= 1 => r.rxedLen <= r.rxLen)
    /\ (r.rxLen = 0 => r.rxedLen <= 1)

(* An unknown id is being refused after an earlier command set a length.   *)
C27_Witness ==
    \E k \in 2..NPkts :
        /\ obs.cur = k /\ IsUnknown(Pkt(k)) /\ r.fsm = "RESPOND"
        /\ r.rxLen >= 2 /\ r.rxedLen = 1

-----------------------------------------------------------------------------
(* C28 as stated: in every reachable state, under V1 and V2 and for every  *)
(* command, the count of bytes sent txedLen is at most txLen.              *)
C28_SentWithinLength == r.txedLen <= r.txLen

(* The states in which txedLen counts something other than the bytes of    *)
(* txBlock sent: padding, uploaded words, JTAG response bytes, and IDLE,   *)
(* which clears the count one cycle after it is entered.                   *)
CountsBeyondLength ==
    {"IDLE", "V1PACKETFILL", "UPLOAD_RXED_DATA", "DAP_JTAG_Sequence_PROCESS"}

(* C28 as amended: txedLen is at most txLen in every state outside IDLE,   *)
(* V1PACKETFILL, UPLOAD_RXED_DATA and DAP_JTAG_Sequence_PROCESS, in        *)
(* particular throughout RESPOND, under V1 and V2 and for every command.   *)
C28_SentWithinLengthInRespond ==
    r.fsm \notin CountsBeyondLength => r.txedLen <= r.txLen

(* RESPOND has sent a whole response of at least two bytes.                *)
C28_Witness ==
    r.fsm = "RESPOND" /\ r.txedLen = r.txLen /\ r.txLen >= 2 /\ ~cfg.isV2

-----------------------------------------------------------------------------
(* The number of bits a SWJ_Sequence packet asks for, and the packets that *)
(* bring all their data bytes.                                             *)
SwjBits(p) == IF p[2] = 0 THEN 256 ELSE p[2]

IsSwjSequence(p) ==
    Len(p) >= 2 /\ p[1] = DAP_SWJ_Sequence /\ Len(p) = 2 + CeilDiv8(SwjBits(p))

(* The pin writes of the sequence: for bit j, taken LSB first from data    *)
(* byte j div 8, the data bit with the clock low, then with the clock      *)
(* high.  Bit 0 of an entry is the clock, bit 1 the data output.           *)
SwjPins(p) ==
    [i \in 1..(2 * SwjBits(p)) |->
        LET j == (i - 1) \div 2
        IN 2 * Bit(p[3 + (j \div 8)], j % 8) + ((i - 1) % 2)]

(* C29: SWJ_Sequence with count byte c drives exactly N bits (N = c, or    *)
(* 256 for c = 0) as 2N pin writes, per bit the data bit with the clock    *)
(* low and then the clock high, each issued only after the one before it   *)
(* completed, the bits taken LSB first from ceil(N/8) data bytes; the      *)
(* response is the command id followed by the status byte.                 *)
C29_SwjSequence ==
    \A k \in 1..NPkts :
        IsSwjSequence(Pkt(k)) /\ obs.cur = k =>
            /\ IsPrefix(obs.pins[k + 1], SwjPins(Pkt(k)))
            /\ \A i \in 1..Len(obs.txns[k + 1]) : obs.txns[k + 1][i].command = CMD_PINS_WRITE
            /\ obs.riseOk
            /\ (r.valid \/ Emit(k) # <<>> \/ Answered(k) => obs.pins[k + 1] = SwjPins(Pkt(k)))
            /\ (ResponseOver(k) => /\ Presents(k, <<DAP_SWJ_Sequence, 0>>)
                                   /\ host.pi = k + 1 /\ host.bi = 1)

(* The sequence of 256 bits has been driven and answered.                  *)
C29_Witness ==
    \E k \in 1..NPkts :
        /\ IsSwjSequence(Pkt(k)) /\ SwjBits(Pkt(k)) = 256
        /\ ResponseOver(k) /\ Len(obs.pins[k + 1]) = 512

-----------------------------------------------------------------------------
(* The command id in hand.                                                 *)
CommandId == GetB(r.rxBlock, 0)

(* Outside IDLE no byte is taken as a command id, and IDLE presents no     *)
(* response byte.                                                          *)
OneCommandStep ==
    /\ r.fsm # "IDLE" => CommandId' = CommandId /\ obs'.cur = obs.cur
    /\ r.fsm = "IDLE" => ~r'.valid

(* The command in hand is the one whose first byte IDLE took last, no      *)
(* response belongs to a packet not yet started, a command that IDLE took  *)
(* and that is over has presented its response, and every response opens   *)
(* with the id of its own command or with the refusal byte.                *)
OneCommandState ==
    /\ obs.cur >= 1 => CommandId = Pkt(obs.cur)[1]
    /\ \A k \in 1..NPkts :
          /\ k > obs.cur => Emit(k) = <<>>
          /\ (k < obs.cur \/ ResponseOver(k)) => Emit(k) # <<>>
          /\ obs.first[k + 1] \in {-1, Pkt(k)[1], DAP_Invalid}

(* C30: commands are handled one at a time: a byte is taken as command id  *)
(* only in Idle, so that between a packet's first byte and the return to   *)
(* Idle no second command is started, and the output carries the complete  *)
(* responses in request order, never interleaved.                          *)
C30_OneAtATime == [] OneCommandState /\ [][OneCommandStep]_vars

(* Two different commands in a row have each been answered with their own  *)
(* id first, the second while the first one's response was complete.       *)
C30_Witness ==
    \E k \in 2..NPkts :
        /\ ResponseOver(k) /\ Pkt(k)[1] # Pkt(k - 1)[1]
        /\ obs.first[k] = Pkt(k - 1)[1] /\ obs.first[k + 1] = Pkt(k)[1]
        /\ Len(Out(k - 1)) >= 2 /\ Len(Out(k)) >= 2

-----------------------------------------------------------------------------
(* Every byte presented for packet k so far was accepted, or the one       *)
(* presented last is still valid with the same payload and end marker.     *)
AcceptedOrWaiting(k) ==
    \/ Out(k) = Emit(k)
    \/ /\ obs.cur = k /\ obs.held /\ r.valid
       /\ Emit(k) = Append(Out(k), <<r.payload, B2N(r.last)>>)

(* C31: for Transfer and TransferBlock responses and every pattern of      *)
(* output-ready, every header byte and every body byte is accepted by the  *)
(* sink exactly once and in order: a byte made valid while the sink is not *)
(* ready stays valid with the same payload until accepted, none skipped.   *)
C31_EveryByteAccepted ==
    \A k \in 1..NPkts : IsBatchCommand(Pkt(k)) => AcceptedOrWaiting(k)

-----------------------------------------------------------------------------
(* C32: no state leaks between commands: the response to a packet, its     *)
(* length and every byte, is the same whatever commands were handled       *)
(* before it (same protocol version, same TransferConfigure settings, same *)
(* transactor results); in particular an Info response does not depend on  *)
(* what an earlier command left in the response buffer.  Checked on runs   *)
(* in which the same packet is handled twice, with other commands between. *)
C32_NoLeak ==
    \A j \in 1..NPkts : \A k \in 1..NPkts :
        j < k /\ Pkt(j) = Pkt(k) /\ ResponseOver(k) => EmitBytes(k) = EmitBytes(j)

-----------------------------------------------------------------------------
(* The n-th request byte of a Transfer packet, and the body of the         *)
(* response when every transfer ends OK at its first attempt: the word     *)
(* read by each read request, in request order, least-significant byte     *)
(* first; the n-th request is the n-th transaction.                        *)
RequestByte(p, n) == p[RequestEnd(p, n - 1) + 1]

TransferWords(p) ==
    LET RECURSIVE f(_)
        f(n) == IF n > p[3] THEN <<>>
                ELSE (IF Bit(RequestByte(p, n), 1) = 1
                      THEN ScriptAt((n - 1) % Len(cfg.script)).dread ELSE <<>>) \o f(n + 1)
    IN f(1)

C33_Expected(p) == <<DAP_Transfer, p[3], ACK_OK>> \o TransferWords(p)

IsPlainTransfer(p) == p[1] = DAP_Transfer /\ IsPlainBatch(p)

(* C33: a Transfer batch of k >= 1 requests that all complete OK without   *)
(* fault or posted mode is answered with the command id, the count k, the  *)
(* status OK and the words of the read requests only, in request order,    *)
(* each least-significant byte first: 3 + 4 * reads bytes under V2.        *)
C33_TransferResponse ==
    \A k \in 1..NPkts :
        IsPlainTransfer(Pkt(k)) /\ AlwaysOK =>
            /\ IsPrefix(EmitBytes(k), FrameOf(C33_Expected(Pkt(k))))
            /\ (ResponseOver(k) => Presents(k, C33_Expected(Pkt(k))))

(* A write followed by a read has been answered with one word.             *)
C33_Witness ==
    \E k \in 1..NPkts :
        /\ IsPlainTransfer(Pkt(k)) /\ AlwaysOK /\ cfg.isV2 /\ ResponseOver(k)
        /\ Pkt(k)[3] = 2 /\ Bit(RequestByte(Pkt(k), 1), 1) = 0
        /\ Len(Emit(k)) = 7 /\ Len(Out(k)) = 7

-----------------------------------------------------------------------------
(* In the drain phase: the read words the batch stored, as Case 11         *)
(* recorded them in txedLen (4 * adr + header length), and the body bytes  *)
(* presented so far.                                                       *)
StoredWords(p) == (r.txedLen - StatusAt(p)) \div 4

BodyBytes(k) == Len(Emit(k)) - StatusAt(Pkt(k))

DrainDone == r.txb = 7 /\ r.transferCount = 0

(* C34: on every path out of the batch phase of Transfer and               *)
(* TransferBlock, an abort by WAIT exhaustion included, the drain phase    *)
(* emits 4 body bytes per read word stored during the batch, and none      *)
(* when no word was stored.                                                *)
C34_DrainLength ==
    \A k \in 1..NPkts :
        IsBatchCommand(Pkt(k)) /\ obs.cur = k /\ r.fsm = "UPLOAD_RXED_DATA" =>
            /\ BodyBytes(k) <= 4 * StoredWords(Pkt(k))
            /\ (DrainDone => BodyBytes(k) = 4 * StoredWords(Pkt(k)))

-----------------------------------------------------------------------------
IsJtagIdcode(p) == Len(p) = 2 /\ p[1] = DAP_JTAG_IDCODE

(* Packet k's one transaction was taken by the transactor and has          *)
(* completed, as the core sees it.                                         *)
TransactionSeenThrough(k) ==
    Len(obs.txns[k + 1]) = 1 /\ t.dstate = "idle" /\ dbg_done

(* C35: a JTAG_IDCODE command responds only after the read-idcode          *)
(* transaction it issued was accepted and completed by the transactor,     *)
(* and response bytes 2..5 are the read data of that completion, not a     *)
(* value left by an earlier transaction.                                   *)
C35_IdcodeAfterCompletion ==
    \A k \in 1..NPkts :
        IsJtagIdcode(Pkt(k)) /\ obs.cur = k =>
            /\ (r.fsm = "RESPOND" \/ r.valid \/ Emit(k) # <<>> =>
                    /\ Len(obs.txns[k + 1]) = 1
                    /\ obs.txns[k + 1][1].command = CMD_JTAG_GET_ID)
            /\ (r.fsm = "RESPOND" => TransactionSeenThrough(k))
            /\ (ResponseOver(k) =>
                    Presents(k, <<DAP_JTAG_IDCODE, 0>> \o ScriptAt(0).dread))

-----------------------------------------------------------------------------
IsSwjPins(p) == Len(p) = 7 /\ p[1] = DAP_SWJ_Pins

(* The 32-bit pin-wait value of a SWJ_Pins packet, bytes 3..6.             *)
PinWait(p) == <<p[4], p[5], p[6], p[7]>>

(* C36: an SWJ_Pins command stays in its process state until the debug    *)
(* interface reports done and only then responds with the command id and   *)
(* the pin readback byte; the pin-wait operand passed to the debug         *)
(* interface is the 32-bit wait value of bytes 3..6 of the packet.         *)
C36_SwjPins ==
    \A k \in 1..NPkts :
        IsSwjPins(Pkt(k)) /\ obs.cur = k =>
            /\ (r.fsm \in {"DAP_SWJ_Pins_PROCESS", "RESPOND"} =>
                    r.countdown = PinWait(Pkt(k)))
            /\ (r.fsm = "RESPOND" => dbg_done /\ r.txLen = 2)
            /\ (ResponseOver(k) => Presents(k, <<DAP_SWJ_Pins, t.pinsout>>))

-----------------------------------------------------------------------------
IsBlockZero(p) == Len(p) = 5 /\ p[1] = DAP_TransferBlock /\ Get16(p, 2) = 0

(* C37: a TransferBlock packet whose 16-bit count is 0 issues no           *)
(* transaction and is answered with a good ack: the command id, a 16-bit   *)
(* count of 0 and the status byte OK (1), four bytes.                      *)
C37_BlockCountZero ==
    \A k \in 1..NPkts :
        IsBlockZero(Pkt(k)) =>
            /\ obs.txns[k + 1] = <<>> /\ obs.go[k + 1] = 0
            /\ (ResponseOver(k) => Presents(k, <<DAP_TransferBlock, 0, 0, ACK_OK>>))

-----------------------------------------------------------------------------
IsConnect(p) == Len(p) = 2 /\ p[1] = DAP_Connect

(* The port a Connect selects (0 where the port is refused) and the        *)
(* transactor command that selects it.                                     *)
ConnectPort(p) == IF p[2] \in {0, 1} THEN 1 ELSE IF p[2] = 2 THEN 2 ELSE 0

ConnectCommand(port) == IF port = 1 THEN CMD_SET_SWD ELSE CMD_SET_JTAG

(* C38: Connect with port 1 or 0 issues exactly one select-SWD             *)
(* transaction and answers 02 01 after it completes, port 2 exactly one    *)
(* select-JTAG transaction and 02 02; any other port issues no             *)
(* transaction and is answered with the invalid response.                  *)
C38_Connect ==
    \A k \in 1..NPkts :
        IsConnect(Pkt(k)) /\ obs.cur = k =>
            LET port == ConnectPort(Pkt(k))
                txns == obs.txns[k + 1]
            IN IF port = 0
               THEN /\ txns = <<>> /\ obs.go[k + 1] = 0
                    /\ (ResponseOver(k) => Presents(k, <<DAP_Invalid>>))
               ELSE /\ Len(txns) <= 1 /\ obs.go[k + 1] <= 1
                    /\ \A i \in 1..Len(txns) : txns[i].command = ConnectCommand(port)
                    /\ (r.fsm = "RESPOND" \/ r.valid \/ Emit(k) # <<>> \/ Answered(k) =>
                           Len(txns) = 1 /\ t.dstate = "idle" /\ ~r.go)
                    /\ (ResponseOver(k) => Presents(k, <<DAP_Connect, port>>))

(* A Connect with port 0 has been answered 02 01 after its one            *)
(* select-SWD transaction.                                                 *)
C38_Witness ==
    \E k \in 1..NPkts :
        /\ IsConnect(Pkt(k)) /\ Pkt(k)[2] = 0 /\ ResponseOver(k)
        /\ Len(obs.txns[k + 1]) = 1 /\ obs.txns[k + 1][1].command = CMD_SET_SWD
        /\ EmitBytes(k)[2] = 1

-----------------------------------------------------------------------------
(* The pin writes of a JTAG_Sequence packet, descriptor by descriptor: for *)
(* pulse j of a descriptor, the TDI bit (bit j mod 8 of the descriptor's   *)
(* data byte j div 8) with TCK low, then the same with TCK high.  Bit 0 of *)
(* an entry is TCK, bit 1 TMS (descriptor bit 6), bit 2 TDI.               *)
JtagPins(p) ==
    LET RECURSIVE walk(_, _)
        walk(i, n) ==
            IF n = 0 THEN <<>>
            ELSE LET c == JtagCycles(p[i])
                     pulses == [m \in 1..(2 * c) |->
                                   LET j == (m - 1) \div 2
                                   IN 4 * Bit(p[i + 1 + (j \div 8)], j % 8)
                                      + 2 * Bit(p[i], 6) + ((m - 1) % 2)]
                 IN pulses \o walk(i + 1 + CeilDiv8(c), n - 1)
    IN walk(3, p[2])

(* C39: for each JTAG_Sequence descriptor with 6-bit cycle count n (0      *)
(* meaning 64) exactly n TCK pulses are driven, each as a pin write with   *)
(* TCK low and the TDI bit set followed by a pin write with TCK high, TMS  *)
(* equal to descriptor bit 6 throughout, the TDI bits taken LSB first from *)
(* successive input bytes, a new byte after every 8 bits, and exactly      *)
(* seqCount descriptors are consumed by the command.                       *)
C39_JtagPulses ==
    \A k \in 1..NPkts :
        IsJtag(Pkt(k)) /\ obs.cur = k =>
            /\ IsPrefix(obs.pins[k + 1], JtagPins(Pkt(k)))
            /\ \A i \in 1..Len(obs.txns[k + 1]) : obs.txns[k + 1][i].command = CMD_PINS_WRITE
            /\ (r.txb >= 7 \/ ResponseOver(k) => obs.pins[k + 1] = JtagPins(Pkt(k)))
            /\ (ResponseOver(k) => host.pi = k + 1 /\ host.bi = 1)

(* A descriptor of count 0 has been driven as 64 pulses and answered.      *)
C39_Witness ==
    \E k \in 1..NPkts :
        /\ IsJtag(Pkt(k)) /\ Pkt(k)[2] = 1 /\ Pkt(k)[3] % 64 = 0
        /\ ResponseOver(k) /\ Len(obs.pins[k + 1]) = 128

-----------------------------------------------------------------------------
(* A step in which IDLE accepts a byte that does not carry the first       *)
(* marker: the host moves on from a byte other than the first of its       *)
(* packet.                                                                 *)
DiscardStep == r.fsm = "IDLE" /\ host' # host /\ host.bi > 1

(* What such a step does: the FSM stays, nothing is presented, and the     *)
(* go line and the receive and response registers are left as they were.   *)
DiscardEffect ==
    /\ r'.fsm = "IDLE" /\ ~r'.valid
    /\ r'.go = r.go
    /\ r'.rxBlock = r.rxBlock /\ r'.rxLen = r.rxLen /\ r'.rxedLen = r.rxedLen
    /\ r'.txBlock = r.txBlock /\ r'.txLen = r.txLen

(* C40: in Idle, an input byte accepted without the first marker is        *)
(* discarded: the FSM stays in Idle, no output byte is made valid, the     *)
(* step does not assert go (the line keeps its level), and rxBlock, rxLen, *)
(* rxedLen, txBlock and txLen are unchanged.                               *)
C40_IdleDiscards == [][DiscardStep => DiscardEffect]_vars

(* The second byte of a packet with an unknown id, refused on its first    *)
(* byte, has been taken in Idle.                                           *)
C40_Witness ==
    \E k \in 1..NPkts :
        /\ IsUnknown(Pkt(k)) /\ Len(Pkt(k)) = 3 /\ obs.cur = k
        /\ host.pi = k /\ host.bi = 3 /\ r.fsm = "IDLE" /\ ResponseOver(k)

====
